---- MODULE Spec2Model ----
(***************************************************************************)
(* A model of the GP appointment data pipeline                             *)
(* (code_your_own_pandas_pipeline): the rate calculations, the merge with  *)
(* the mapping table, the pivot and the monthly aggregation.               *)
(*                                                                         *)
(* A DataFrame is a record [columns, rows]: the set of its column names    *)
(* and the bag of its rows, each row a function from the column names to   *)
(* cells.  The order of the rows is not modelled.  A numeric cell is a     *)
(* natural number or NaN; a text cell is a string or NA.  A float quotient *)
(* is the pair [num, den] of its operands: den = 0 is the IEEE result of a *)
(* division by zero (inf when num > 0, NaN when num = 0).                  *)
(***************************************************************************)
EXTENDS Bags, FiniteSets, Integers, Sequences, TLC

VARIABLES
    pc,                              \* position of the running call
    df,                              \* the frame handed to calculations.py (mutated in place)
    trace,                           \* the functions that have run, in order
    raised,                          \* "" or the exception that ended the call
    log,                             \* the loguru records emitted so far
    practice_level_data,             \* long table: the left side of the merge / input of the pivot
    mapping_data,                    \* the mapping table: the right side of the merge
    merged_data,                     \* the frame returned by the merge
    practice_level_pivot,            \* the frame returned by the pivot
    monthly_aggregate_appointments,  \* the frame returned by the aggregation
    args,                            \* the arguments of the running call
    interim_files,                   \* the interim outputs written to disk
    directory,                       \* the files of the raw data directory
    raw_data,                        \* the frame read from the crosstab files
    summaries,                       \* the dict returned by the batch aggregation
    figures                          \* the plots saved to the figures directory

vars == <<pc, df, trace, raised, log, practice_level_data, mapping_data,
          merged_data, practice_level_pivot, monthly_aggregate_appointments, args,
          interim_files, directory, raw_data, summaries, figures>>

(***************************************************************************)
(* Bounds of the model.                                                    *)
(***************************************************************************)
MaxRows == 4
MaxPivotRows == 2
MaxCount == 1
MaxScenarioRows == 3
MaxRawRows == 2
MaxFileRows == 2
MaxUnique == 21
MaxMainRows == 3

(***************************************************************************)
(* Cells.                                                                  *)
(***************************************************************************)
NaN == -1
NA == "<NA>"
\* The counts a loaded cell holds: no appointment, or MaxCount of them.
Counts == {0, MaxCount}
Cells == {NaN} \cup Counts

NaNRate == [num |-> 0, den |-> 0]

(***************************************************************************)
(* Frames.                                                                 *)
(***************************************************************************)
Frame(columns, rows) == [columns |-> columns, rows |-> rows]

EmptyFrame == Frame({}, EmptyBag)

NRows(frame) == BagCardinality(frame.rows)

RECURSIVE SumOver(_, _)
SumOver(f, S) ==
    IF S = {} THEN 0
    ELSE LET x == CHOOSE y \in S : TRUE
         IN  f[x] + SumOver(f, S \ {x})

\* The bag of F[r] for the rows r of the bag B, multiplicities added up.
MapRows(F, B) ==
    LET image == {F[r] : r \in DOMAIN B}
    IN  [x \in image |->
            SumOver([r \in DOMAIN B |-> B[r]], {r \in DOMAIN B : F[r] = x})]

AddRow(frame, row) == Frame(frame.columns, frame.rows (+) SetToBag({row}))

\* Series.sum / DataFrame.sum: missing cells are skipped, so they count as 0.
NanToZero(c) == IF c = NaN THEN 0 ELSE c

DivideZeroAsZero(a, b) ==
    IF a = NaN \/ b = NaN THEN NaNRate
    ELSE IF b = 0 THEN [num |-> 0, den |-> 1]
    ELSE [num |-> a, den |-> b]

\* Float division of two numeric cells.
Divide(a, b) ==
    IF a = NaN \/ b = NaN THEN NaNRate ELSE [num |-> a, den |-> b]

\* A dict of frames: its keys in insertion order, and the frame under each.
Dict(keys, value) == [keys |-> keys, value |-> value]

EmptyDict == Dict(<<>>, <<>>)

Ok(frame) == [raised |-> "", df |-> frame]
Raise(exc, frame) == [raised |-> exc, df |-> frame]

(***************************************************************************)
(* calculations.py                                                         *)
(***************************************************************************)
DefaultAppointmentCols == {"ATTENDED", "DID_NOT_ATTEND", "UNKNOWN"}

calculate_total_appointments_no_fill(frame, appointment_cols) ==
    LET cols == IF appointment_cols = {} THEN DefaultAppointmentCols
                ELSE appointment_cols
        newcols == frame.columns \cup {"TOTAL_APPOINTMENTS"}
        total(r) == IF \E c \in cols : r[c] = NaN THEN NaN
                    ELSE SumOver(r, cols)
        F == [r \in DOMAIN frame.rows |->
                [c \in newcols |->
                    IF c = "TOTAL_APPOINTMENTS" THEN total(r) ELSE r[c]]]
    IN  IF ~(cols \subseteq frame.columns) THEN Raise("KeyError", frame)
        ELSE Ok(Frame(newcols, MapRows(F, frame.rows)))

calculate_total_appointments_without_unknown(frame, appointment_cols) ==
    LET cols == IF appointment_cols = {} THEN DefaultAppointmentCols
                ELSE appointment_cols
        newcols == frame.columns \cup {"TOTAL_APPOINTMENTS"}
        filled(r) == [c \in frame.columns |->
                        IF c \in cols THEN NanToZero(r[c]) ELSE r[c]]
        F == [r \in DOMAIN frame.rows |->
                [c \in newcols |->
                    IF c = "TOTAL_APPOINTMENTS"
                    THEN SumOver(filled(r), cols \ {"UNKNOWN"})
                    ELSE filled(r)[c]]]
    IN  IF ~(cols \subseteq frame.columns) THEN Raise("KeyError", frame)
        ELSE Ok(Frame(newcols, MapRows(F, frame.rows)))

calculate_total_appointments(frame, appointment_cols) ==
    LET cols == IF appointment_cols = {} THEN DefaultAppointmentCols
                ELSE appointment_cols
        newcols == frame.columns \cup {"TOTAL_APPOINTMENTS"}
        filled(r) == [c \in frame.columns |->
                        IF c \in cols THEN NanToZero(r[c]) ELSE r[c]]
        F == [r \in DOMAIN frame.rows |->
                [c \in newcols |->
                    IF c = "TOTAL_APPOINTMENTS" THEN SumOver(filled(r), cols)
                    ELSE filled(r)[c]]]
    IN  IF ~(cols \subseteq frame.columns) THEN Raise("KeyError", frame)
        ELSE Ok(Frame(newcols, MapRows(F, frame.rows)))

\* frame[target] = frame[numerator] / frame["TOTAL_APPOINTMENTS"]
RateColumn(frame, target, numerator) ==
    LET newcols == frame.columns \cup {target}
        F == [r \in DOMAIN frame.rows |->
                [c \in newcols |->
                    IF c = target THEN Divide(r[numerator], r["TOTAL_APPOINTMENTS"])
                    ELSE r[c]]]
    IN  IF ~({numerator, "TOTAL_APPOINTMENTS"} \subseteq frame.columns)
        THEN Raise("KeyError", frame)
        ELSE Ok(Frame(newcols, MapRows(F, frame.rows)))

calculate_did_not_attend_rate(frame) ==
    RateColumn(frame, "DID_NOT_ATTEND_RATE", "DID_NOT_ATTEND")

calculate_attended_rate(frame) ==
    RateColumn(frame, "ATTENDED_RATE", "ATTENDED")

\* The order of the .pipe chain of calculate_appointment_columns.
PipeOrderRatesFirst ==
    <<"calculate_attended_rate", "calculate_total_appointments",
      "calculate_did_not_attend_rate">>

PipeOrder ==
    <<"calculate_total_appointments", "calculate_attended_rate",
      "calculate_did_not_attend_rate">>

PipeStep(name, frame) ==
    CASE name = "calculate_total_appointments" ->
            calculate_total_appointments(frame, {})
      [] name = "calculate_attended_rate" -> calculate_attended_rate(frame)
      [] name = "calculate_did_not_attend_rate" ->
            calculate_did_not_attend_rate(frame)

\* The chain run from step k on; an exception ends it.
RECURSIVE PipeFrom(_, _)
PipeFrom(k, res) ==
    IF k > Len(PipeOrder) \/ res.raised # "" THEN res
    ELSE PipeFrom(k + 1, PipeStep(PipeOrder[k], res.df))

calculate_appointment_columns(frame) == PipeFrom(1, Ok(frame))

(***************************************************************************)
(* data_in.py                                                              *)
(***************************************************************************)
\* A loguru record.
LogRecord(level, message, count, side) ==
    [level |-> level, message |-> message, count |-> count, side |-> side]

Info(message) == LogRecord("INFO", message, 0, "")

\* A file name is the sequence of its parts, the extension last:
\* <<"Practice_Level_Crosstab", "_Sep_24", ".csv">>.
File(name, content) == [name |-> name, content |-> content]

GlobAnyCsv(name, file_starts_with) == name[Len(name)] = ".csv"

\* directory.glob(f"{file_starts_with}*.csv") on one name.
Glob(name, file_starts_with) ==
    name[1] = file_starts_with /\ name[Len(name)] = ".csv"

\* The cell pd.concat puts where a frame lacks a column of another.
ConcatCell(c) == IF c = "COUNT_OF_APPOINTMENTS" THEN NaN ELSE NA

\* pd.concat(frames, ignore_index=True) of a set of files' frames.
RECURSIVE Concat(_)
Concat(files) ==
    IF files = {} THEN EmptyFrame
    ELSE LET f == CHOOSE g \in files : TRUE
             rest == Concat(files \ {f})
             columns == f.content.columns \cup rest.columns
             widen(frame) ==
                MapRows([r \in DOMAIN frame.rows |->
                            [c \in columns |->
                                IF c \in frame.columns THEN r[c] ELSE ConcatCell(c)]],
                        frame.rows)
         IN  Frame(columns, widen(f.content) (+) widen(rest))

concatenate_practice_level_data(files) ==
    [df |-> Concat(files), log |-> <<Info("Concatenating practice data")>>]

\* One "Reading file" record per file read.
RECURSIVE ReadingRecords(_)
ReadingRecords(n) ==
    IF n = 0 THEN <<>>
    ELSE Append(ReadingRecords(n - 1), Info("Reading file"))

\* The exception if any, the frame returned and the records logged.
read_practice_level_data(dir, file_starts_with) ==
    LET file_paths == {f \in dir : Glob(f.name, file_starts_with)}
        concatenated == concatenate_practice_level_data(file_paths)
    IN  IF file_paths = {}
        THEN [raised |-> "AssertionError", df |-> EmptyFrame, log |-> <<>>]
        ELSE [raised |-> "", df |-> concatenated.df,
              log |-> ReadingRecords(Cardinality(file_paths)) \o concatenated.log]

\* One warning per member of the archive that is already in the directory.
RECURSIVE SkipRecords(_)
SkipRecords(n) ==
    IF n = 0 THEN <<>>
    ELSE Append(SkipRecords(n - 1),
                LogRecord("WARNING", "already exists, skipping extraction.", 0, ""))

\* zip_path = extract_path / "_data.zip"
ZipFileName == <<"_data", ".zip">>

\* What is written to zip_path: the members of an archive, or bytes that
\* are no zip archive (raised "BadZipFile" when opened).
Body(exception, members) == [raised |-> exception, members |-> members]

\* Bytes that are no zip archive: a page of the server, or a body cut in
\* the data of a member or in the central directory.
UnreadableBody == Body("BadZipFile", {})

\* What the request brings: the exception of requests if any, raised by
\* requests.get or, partial, by iter_content when zip_path is open for
\* writing, and body, the bytes that reach zip_path.  The bytes written
\* before iter_content raises are unreadable or, when the connection broke
\* after the end of the central directory, an archive with all its members.
Response(exception, partial, body) ==
    [raised |-> exception, partial |-> partial, body |-> body]

\* download_zip(url, zip_path=zip_path, skip_logger=logger.warning) on the
\* raw data directory dir.  The body of the response is written to
\* zip_path; an exception of iter_content leaves what was written so far.
\* A zip file already there is kept and no request is made (overwrite is
\* never passed on).
download_zip(dir, response) ==
    IF \E f \in dir : f.name = ZipFileName
    THEN [raised |-> "", directory |-> dir,
          log |-> <<LogRecord("WARNING", "already exists, skipping download.", 0, "")>>]
    ELSE IF response.raised = "RequestException"
    THEN [raised |-> response.raised,
          directory |-> IF response.partial
                        THEN dir \cup {File(ZipFileName, response.body)} ELSE dir,
          log |-> <<Info("Downloading zip file")>>]
    ELSE [raised |-> "",
          directory |-> dir \cup {File(ZipFileName, response.body)},
          log |-> <<Info("Downloading zip file")>>]

\* extract_zip_contents(overwrite=False, ...) on a directory that holds the
\* zip file: a member already in the directory is skipped with a warning,
\* then the zip file is removed; a file that is no archive raises when it is
\* opened and stays where it is.
extract_zip_contents(dir) ==
    LET zip == CHOOSE f \in dir : f.name = ZipFileName
        extracting == <<Info("Extracting contents")>>
        existing == {m \in zip.content.members : \E f \in dir : f.name = m.name}
    IN  IF zip.content.raised # ""
        THEN [raised |-> zip.content.raised, directory |-> dir, log |-> extracting]
        ELSE [raised |-> "",
              directory |-> (dir \ {zip}) \cup (zip.content.members \ existing),
              log |-> extracting \o SkipRecords(Cardinality(existing))
                        \o <<Info("Extraction complete. Removing zip file")>>]

\* download_and_extract_zip(url): the exception if any, the raw data
\* directory afterwards and the records logged.
download_and_extract_zip(dir, response) ==
    LET downloaded == download_zip(dir, response)
        extracted == extract_zip_contents(downloaded.directory)
    IN  IF downloaded.raised # "" THEN downloaded
        ELSE IF extracted.raised # ""
        THEN [extracted EXCEPT !.log = downloaded.log \o extracted.log]
        ELSE [extracted EXCEPT !.log = downloaded.log \o extracted.log
                \o <<LogRecord("SUCCESS", "Download and extraction complete!", 0, "")>>]

\* read_mapping_data(): pd.read_csv(RAW_DATA_DIR / "Mapping.csv").
read_mapping_data(dir) ==
    LET files == {f \in dir : f.name = <<"Mapping", ".csv">>}
        reading == <<Info("Reading mapping data")>>
    IN  IF files = {}
        THEN [raised |-> "FileNotFoundError", df |-> EmptyFrame, log |-> reading]
        ELSE [raised |-> "", df |-> (CHOOSE f \in files : TRUE).content,
              log |-> reading]

(***************************************************************************)
(* processing.py                                                           *)
(***************************************************************************)
\* The text of a month-start cell of the crosstab files is a sequence of
\* tokens, <<"01", "SEP", "2024">> for 01SEP2024; the empty sequence is an
\* empty cell.  A parsed date is a Timestamp, written as its ISO form.
StrptimeDays == [t \in {"01", "31"} |-> IF t = "01" THEN 1 ELSE 31]

\* %b: the abbreviated month name, in any case.
StrptimeMonths == [t \in {"AUG", "SEP", "Sep"} |-> IF t = "AUG" THEN 8 ELSE 9]

StrptimeYears == [t \in {"2024"} |-> 2024]

DaysInMonth(month) == IF month = 9 THEN 30 ELSE 31

Timestamp(year, month, day) ==
    CASE <<year, month, day>> = <<2024, 8, 1>> -> "2024-08-01"
      [] <<year, month, day>> = <<2024, 8, 31>> -> "2024-08-31"
      [] <<year, month, day>> = <<2024, 9, 1>> -> "2024-09-01"

\* The missing date of a datetime column.
NaT == NA

to_datetime_coerce(text) ==
    IF /\ Len(text) = 3
       /\ text[1] \in DOMAIN StrptimeDays
       /\ text[2] \in DOMAIN StrptimeMonths
       /\ text[3] \in DOMAIN StrptimeYears
       /\ StrptimeDays[text[1]] <= DaysInMonth(StrptimeMonths[text[2]])
    THEN [raised |-> "",
          value |-> Timestamp(StrptimeYears[text[3]], StrptimeMonths[text[2]],
                              StrptimeDays[text[1]])]
    ELSE [raised |-> "", value |-> NaT]

\* pd.to_datetime(cell, format="%d%b%Y") on one cell: a missing cell gives
\* NaT, a text that is not day, abbreviated month and year of a date that
\* exists raises ValueError.
to_datetime(text) ==
    IF Len(text) = 0 THEN [raised |-> "", value |-> NaT]
    ELSE IF /\ Len(text) = 3
            /\ text[1] \in DOMAIN StrptimeDays
            /\ text[2] \in DOMAIN StrptimeMonths
            /\ text[3] \in DOMAIN StrptimeYears
            /\ StrptimeDays[text[1]] <= DaysInMonth(StrptimeMonths[text[2]])
         THEN [raised |-> "",
               value |-> Timestamp(StrptimeYears[text[3]], StrptimeMonths[text[2]],
                                   StrptimeDays[text[1]])]
         ELSE [raised |-> "ValueError", value |-> NaT]

\* The frames a call works on, by object, in the order they come to exist:
\* the arguments of the call first.  A name of the function is bound to one
\* of them.
\* A call that hands back the object it was applied to, changed.
SameObject(objects, frame) == [objects EXCEPT ![Len(objects)] = frame]

\* A pandas call that returns a new frame (.loc[:, [...]], pd.merge, pivot,
\* reset_index, rename, groupby(...).agg(...)): the frame is one more
\* object, and the objects there were are as they were.
NewObject(objects, frame) == Append(objects, frame)

\* An assignment to a column of the object ref (frame[column] = ...) or an
\* inplace call on it (drop(..., inplace=True)): that object is now frame.
InPlace(objects, ref, frame) == [objects EXCEPT ![ref] = frame]

\* The columns tidy_practice_level_data selects.
TidyColumns ==
    {"APPOINTMENT_MONTH_START_DATE", "GP_CODE", "HCP_TYPE", "APPT_MODE",
     "NATIONAL_CATEGORY", "TIME_BETWEEN_BOOK_AND_APPT", "COUNT_OF_APPOINTMENTS",
     "APPT_STATUS"}

TidyRowsOfKnownStatus(frame) ==
    {r \in DOMAIN frame.rows : r["APPT_STATUS"] # "Unknown"}

\* The rows tidy_practice_level_data keeps: all of them (the replacement of
\* "Unknown" by a missing status and the dropna on it are commented out).
TidyRows(frame) == DOMAIN frame.rows

\* The exception if any, the frame returned, the records logged and the
\* interim files written.
tidy_practice_level_data(frame, save_interim_output) ==
    LET selecting == <<Info("Processing practice data"),
                       Info("Selecting columns")>>
        converting == <<Info("Convert APPOINTMENT_MONTH_START_DATE to datetime")>>
        saving == IF save_interim_output
                  THEN <<Info("Saving interim output to processed_practice_level_data.csv")>>
                  ELSE <<>>
        kept == TidyRows(frame)
        selected(r) == [c \in TidyColumns |-> r[c]]
        converted(r) == [c \in TidyColumns |->
                            IF c = "APPOINTMENT_MONTH_START_DATE"
                            THEN to_datetime(r[c]).value ELSE r[c]]
    IN  IF ~(TidyColumns \subseteq frame.columns)
        THEN [raised |-> "KeyError", df |-> EmptyFrame, log |-> selecting,
              files |-> {}]
        ELSE IF \E r \in kept : to_datetime(selected(r)["APPOINTMENT_MONTH_START_DATE"]).raised # ""
        THEN [raised |-> "ValueError", df |-> EmptyFrame,
              log |-> selecting \o converting, files |-> {}]
        ELSE [raised |-> "",
              df |-> Frame(TidyColumns,
                           MapRows([r \in kept |-> converted(r)],
                                   [r \in kept |-> frame.rows[r]])),
              log |-> selecting \o converting \o saving,
              files |-> IF save_interim_output
                        THEN {"processed_practice_level_data.csv"} ELSE {}]

\* The objects of a call of tidy_practice_level_data: .loc[:, [...]] makes
\* the selection, the name practice_level_data is bound to it from then on,
\* and the parsed dates are assigned to a column of the object of that name.
\* An exception of to_datetime comes before the assignment.
TidyObjects(frame) ==
    LET res == tidy_practice_level_data(frame, FALSE)
        selection == Frame(TidyColumns,
                           MapRows([r \in DOMAIN frame.rows |->
                                        [c \in TidyColumns |-> r[c]]], frame.rows))
        objects == NewObject(<<frame>>, selection)
        practice_level_data_name == Len(objects)
    IN  IF ~(TidyColumns \subseteq frame.columns) THEN <<frame>>
        ELSE IF res.raised # "" THEN objects
        ELSE InPlace(objects, practice_level_data_name, res.df)

\* The frame handed to tidy_practice_level_data, as the call leaves it.
TidyArgumentAfter(frame) == TidyObjects(frame)[1]

\* The cell pandas puts where a joined row has no partner.
MissingCell(c) == IF c = "COUNT_OF_APPOINTMENTS" THEN NaN ELSE NA

\* pandas.merge(left, right, on=on, how=how, indicator=indicator); indicator
\* is "" for no indicator column, else the name of the indicator column.
Merge(left, right, on, how, indicator) ==
    LET columns == left.columns \cup right.columns \cup
                        (IF indicator = "" THEN {} ELSE {indicator})
        matched == {pair \in (DOMAIN left.rows) \X (DOMAIN right.rows) :
                        pair[1][on] = pair[2][on]}
        left_only == {l \in DOMAIN left.rows :
                        \A r \in DOMAIN right.rows : l[on] # r[on]}
        right_only == {r \in DOMAIN right.rows :
                        \A l \in DOMAIN left.rows : l[on] # r[on]}
        both(pair) == [c \in columns |->
                        IF c = indicator THEN "both"
                        ELSE IF c \in left.columns THEN pair[1][c]
                        ELSE pair[2][c]]
        lonly(l) == [c \in columns |->
                        IF c = indicator THEN "left_only"
                        ELSE IF c \in left.columns THEN l[c]
                        ELSE MissingCell(c)]
        ronly(r) == [c \in columns |->
                        IF c = indicator THEN "right_only"
                        ELSE IF c \in right.columns THEN r[c]
                        ELSE MissingCell(c)]
        bothBag == MapRows([pair \in matched |-> both(pair)],
                           [pair \in matched |->
                                left.rows[pair[1]] * right.rows[pair[2]]])
        leftBag == IF how \in {"left", "outer"}
                   THEN MapRows([l \in left_only |-> lonly(l)],
                                [l \in left_only |-> left.rows[l]])
                   ELSE EmptyBag
        rightBag == IF how \in {"right", "outer"}
                    THEN MapRows([r \in right_only |-> ronly(r)],
                                 [r \in right_only |-> right.rows[r]])
                    ELSE EmptyBag
    IN  IF ~(on \in left.columns /\ on \in right.columns)
        THEN Raise("KeyError", EmptyFrame)
        ELSE IF indicator # "" /\ indicator \in left.columns \cup right.columns
        THEN Raise("ValueError", EmptyFrame)
        ELSE Ok(Frame(columns, bothBag (+) leftBag (+) rightBag))

\* Python's truth value of the variable bad_merge of check_merge, which
\* holds False, True or the name of a side.
Truthy(value) == value \notin {"False", ""}

\* merged_df[merge_column].value_counts().get(side, 0)
ValueCount(merged_df, merge_column, side) ==
    SumOver([r \in DOMAIN merged_df.rows |-> merged_df.rows[r]],
            {r \in DOMAIN merged_df.rows : r[merge_column] = side})

\* The column check_merge drops: the literal "_merge", whatever merge_column is.
DroppedColumn(merge_column) == "_merge"

DropColumn(frame, column) ==
    Frame(frame.columns \ {column},
          MapRows([r \in DOMAIN frame.rows |->
                      [c \in frame.columns \ {column} |-> r[c]]], frame.rows))

\* check_merge: the log records it emits, the exception it raises if any,
\* and merged_df as it leaves it (it is changed in place).
check_merge(merged_df, merge_column) ==
    LET left_count == ValueCount(merged_df, merge_column, "left_only")
        right_count == ValueCount(merged_df, merge_column, "right_only")
        warn(side, count) ==
            IF count # 0
            THEN <<LogRecord("WARNING", "rows in the merged data", count, side)>>
            ELSE <<>>
        \* bad_merge after the loop: the loop variable itself, or True when
        \* the last side it took had rows
        bad_merge == IF right_count # 0 THEN "True" ELSE "right_only"
        healthy == IF ~Truthy(bad_merge)
                   THEN <<Info("The merge was healthy.")>> ELSE <<>>
        records == warn("left_only", left_count) \o warn("right_only", right_count)
                        \o healthy
        column == DroppedColumn(merge_column)
    IN  IF merge_column \notin merged_df.columns
        THEN [raised |-> "KeyError", df |-> merged_df, log |-> <<>>]
        ELSE IF column \notin merged_df.columns
        THEN [raised |-> "KeyError", df |-> merged_df, log |-> records]
        ELSE [raised |-> "", df |-> DropColumn(merged_df, column), log |-> records]

MergeHowLeft == "left"

\* The how of the pd.merge call: how="left" is commented out, so the default.
MergeHow == "inner"

merge_mapping_data_with_practice_level_data(practice, mapping, save_interim_output) ==
    LET start == <<Info("Merging mapping data with practice data")>>
        merged == Merge(practice, mapping, "GP_CODE", MergeHow, "_merge")
        checked == check_merge(merged.df, "_merge")
        saving == IF save_interim_output
                  THEN <<Info("Saving interim output to merged_data.csv")>> ELSE <<>>
    IN  IF merged.raised # ""
        THEN [raised |-> merged.raised, df |-> EmptyFrame, log |-> start, files |-> {}]
        ELSE IF checked.raised # ""
        THEN [raised |-> checked.raised, df |-> EmptyFrame,
              log |-> start \o checked.log, files |-> {}]
        ELSE [raised |-> "", df |-> checked.df,
              log |-> start \o checked.log \o saving,
              files |-> IF save_interim_output THEN {"merged_data.csv"} ELSE {}]

\* The objects of a call of merge_mapping_data_with_practice_level_data:
\* pd.merge makes the merged frame, .pipe hands that object to check_merge
\* as merged_df, and check_merge drops the indicator from merged_df in
\* place.
MergeObjects(practice, mapping) ==
    LET merged == Merge(practice, mapping, "GP_CODE", MergeHow, "_merge")
        objects == NewObject(<<practice, mapping>>, merged.df)
        merged_df == Len(objects)
        checked == check_merge(objects[merged_df], "_merge")
    IN  IF merged.raised # "" THEN <<practice, mapping>>
        ELSE IF checked.raised # "" THEN objects
        ELSE InPlace(objects, merged_df, checked.df)

\* The frames handed to merge_mapping_data_with_practice_level_data, as the
\* call leaves them.
MergeArgumentsAfter(practice, mapping) == SubSeq(MergeObjects(practice, mapping), 1, 2)

(***************************************************************************)
(* aggregations.py                                                         *)
(***************************************************************************)
DATE == "APPOINTMENT_MONTH_START_DATE"

Range(seq) == {seq[i] : i \in DOMAIN seq}

AGG_COLS ==
    <<"GP_NAME", "SUPPLIER", "PCN_NAME", "SUB_ICB_LOCATION_NAME", "ICB_NAME",
      "REGION_NAME", "HCP_TYPE", "APPT_MODE", "NATIONAL_CATEGORY",
      "TIME_BETWEEN_BOOK_AND_APPT">>

DefaultRenameColumns ==
    [s \in {"DNA", "Attended", "Unknown"} |->
        CASE s = "DNA" -> "DID_NOT_ATTEND"
          [] s = "Attended" -> "ATTENDED"
          [] s = "Unknown" -> "UNKNOWN"]

\* DataFrame.rename(columns=mapping) on one label.
Rename(mapping, c) == IF c \in DOMAIN mapping THEN mapping[c] ELSE c

\* The labels that DataFrame.rename(columns=mapping) gives to more than one
\* of the columns `old`: rename relabels, it merges nothing, so the frame
\* then has as many columns of that label as there are sources.
RepeatedLabels(mapping, old) ==
    LET new == [c \in old |-> Rename(mapping, c)]
    IN  {new[c] : c \in {c1 \in old : \E c2 \in old \ {c1} : new[c2] = new[c1]}}

\* The key under which a frame of this model holds the column renamed from
\* c: its new label, and for a label that several columns have (repeated),
\* the label with the old one, which keeps the columns and their cells apart.
ColumnKey(mapping, repeated, c) ==
    IF Rename(mapping, c) \in repeated
    THEN Rename(mapping, c) \o "<-" \o c
    ELSE Rename(mapping, c)

\* The labels of the renamed frame, each with the number of its columns.
RenamedLabels(mapping, old) ==
    [l \in {Rename(mapping, c) : c \in old} |->
        Cardinality({c \in old : Rename(mapping, c) = l})]

\* The rows of data at index tuple t whose spread column holds s.
EntryRows(data, idx, columns, t, s) ==
    {r \in DOMAIN data.rows : r[columns] = s /\ \A c \in idx : r[c] = t[c]}

NeverDuplicate(data, idx, columns) == FALSE

\* DataFrame.pivot refuses an (index, column) pair that occurs twice.
HasDuplicateEntries(data, idx, columns) ==
    \/ \E r \in DOMAIN data.rows : data.rows[r] > 1
    \/ \E r1, r2 \in DOMAIN data.rows :
        /\ r1 # r2
        /\ r1[columns] = r2[columns]
        /\ \A c \in idx : r1[c] = r2[c]

PivotCellZeroFilled(data, idx, columns, values, t, s) ==
    LET rows == EntryRows(data, idx, columns, t, s)
    IN  IF rows = {} THEN 0 ELSE (CHOOSE r \in rows : TRUE)[values]

\* The cell of the reshaped frame at (t, s): the value of the one input row
\* with that pair, missing when there is none.
PivotCell(data, idx, columns, values, t, s) ==
    LET rows == EntryRows(data, idx, columns, t, s)
    IN  IF rows = {} THEN NaN ELSE (CHOOSE r \in rows : TRUE)[values]

pivot_practice_level_data(data, index, columns, values, rename_columns) ==
    LET idx == IF Len(index) = 0 THEN {DATE} \cup Range(AGG_COLS) ELSE Range(index)
        mapping == IF DOMAIN rename_columns = {} THEN DefaultRenameColumns
                   ELSE rename_columns
        tuples == {[c \in idx |-> r[c]] : r \in DOMAIN data.rows}
        spread == {r[columns] : r \in DOMAIN data.rows}
        old == idx \cup spread
        repeated == RepeatedLabels(mapping, old)
        key == [c \in old |-> ColumnKey(mapping, repeated, c)]
        newcols == {key[c] : c \in old}
        source == [c2 \in newcols |-> CHOOSE c \in old : key[c] = c2]
        out(t) == [c2 \in newcols |->
                    IF source[c2] \in idx THEN t[source[c2]]
                    ELSE PivotCell(data, idx, columns, values, t, source[c2])]
    IN  IF ~((idx \cup {columns, values}) \subseteq data.columns)
        THEN Raise("KeyError", EmptyFrame)
        ELSE IF HasDuplicateEntries(data, idx, columns)
        THEN Raise("ValueError", EmptyFrame)
        ELSE Ok(Frame(newcols, SetToBag({out(t) : t \in tuples})))

\* The objects of a call of pivot_practice_level_data with the defaults:
\* pivot, reset_index and rename each return a new frame, the last of which
\* is returned; nothing is assigned to any of them.
PivotObjects(data) ==
    LET res == pivot_practice_level_data(data, <<>>, "APPT_STATUS",
                                         "COUNT_OF_APPOINTMENTS", <<>>)
    IN  IF res.raised # "" THEN <<data>> ELSE NewObject(<<data>>, res.df)

\* The frame handed to pivot_practice_level_data, as the call leaves it.
PivotArgumentAfter(data) == PivotObjects(data)[1]

\* The rows of a group, as a bag.
GroupRows(frame, keys, key) ==
    [r \in {q \in DOMAIN frame.rows : \A c \in keys : q[c] = key[c]} |-> frame.rows[r]]

SumColumnCount(rows, c) ==
    SumOver([r \in DOMAIN rows |-> IF r[c] = NaN THEN 0 ELSE rows[r]], DOMAIN rows)

SumColumnMax(rows, c) ==
    LET cells == {NanToZero(r[c]) : r \in DOMAIN rows}
    IN  IF cells = {} THEN 0 ELSE CHOOSE x \in cells : \A y \in cells : y <= x

\* Sum of column c over a bag of rows, missing cells skipped (sum of none: 0).
SumColumn(rows, c) ==
    SumOver([r \in DOMAIN rows |-> rows[r] * NanToZero(r[c])], DOMAIN rows)

\* DataFrame.groupby(keys).agg({c: "sum" for c in summed}).reset_index(), with
\* the rows of dropped left out of every group.
GroupBySum(frame, keys, summed, dropped) ==
    LET kept == {r \in DOMAIN frame.rows : r \notin dropped}
        groupkeys == {[c \in keys |-> r[c]] : r \in kept}
        out(key) == [c \in keys \cup summed |->
                        IF c \in keys THEN key[c]
                        ELSE SumColumn(GroupRows(frame, keys, key), c)]
    IN  Frame(keys \cup summed, SetToBag({out(key) : key \in groupkeys}))

NoRows(frame, keys) == {}

\* groupby's default dropna=True: a row with a missing key is in no group.
MissingKeyRows(frame, keys) == {r \in DOMAIN frame.rows : \E c \in keys : r[c] = NA}

summarize_with_missing_as_zero(pivot, agg_cols, add_rate_cols) ==
    LET keys == {DATE} \cup Range(agg_cols)
        summed == {"ATTENDED", "DID_NOT_ATTEND", "UNKNOWN"}
        columns == pivot.columns \cup summed
        filled == Frame(columns,
                        MapRows([r \in DOMAIN pivot.rows |->
                                    [c \in columns |->
                                        IF c \in pivot.columns THEN r[c] ELSE 0]],
                                pivot.rows))
        grouped == GroupBySum(filled, keys, summed, MissingKeyRows(filled, keys))
    IN  IF ~(keys \subseteq pivot.columns) THEN Raise("KeyError", EmptyFrame)
        ELSE IF add_rate_cols THEN calculate_appointment_columns(grouped)
        ELSE Ok(grouped)

summarize_monthly_aggregate_appointments(pivot, agg_cols, add_rate_cols) ==
    LET keys == {DATE} \cup Range(agg_cols)
        summed == {"ATTENDED", "DID_NOT_ATTEND", "UNKNOWN"}
        grouped == GroupBySum(pivot, keys, summed, MissingKeyRows(pivot, keys))
    IN  IF ~((keys \cup summed) \subseteq pivot.columns) THEN Raise("KeyError", EmptyFrame)
        ELSE IF add_rate_cols THEN calculate_appointment_columns(grouped)
        ELSE Ok(grouped)

\* summarize_monthly_appointment_status: the record it logs, the exception
\* if any and the frame returned: the counts summed per month and status,
\* the status column relabelled.  The frame given is left as it is.
summarize_monthly_appointment_status(data) ==
    LET keys == {DATE, "APPT_STATUS"}
        summed == {"COUNT_OF_APPOINTMENTS"}
        grouped == GroupBySum(data, keys, summed, MissingKeyRows(data, keys))
        label(c) == IF c = "APPT_STATUS" THEN "Appointment Status" ELSE c
        columns == {label(c) : c \in keys \cup summed}
        renamed(r) == [c2 \in columns |->
                        r[CHOOSE c \in keys \cup summed : label(c) = c2]]
        res == IF ~((keys \cup summed) \subseteq data.columns)
               THEN Raise("KeyError", EmptyFrame)
               ELSE Ok(Frame(columns,
                             MapRows([r \in DOMAIN grouped.rows |-> renamed(r)],
                                     grouped.rows)))
    IN  [raised |-> res.raised, df |-> res.df,
         log |-> <<Info("Summarizing monthly appointment status")>>]

\* Python's None for an optional list of column names, kept apart from every
\* list of column names (the empty list included).
None == <<"<None>">>

\* dict[key] = value: a new key goes last, a key already there keeps its place.
DictSet(dict, key, value) ==
    Dict(IF key \in Range(dict.keys) THEN dict.keys ELSE Append(dict.keys, key),
         [k \in Range(dict.keys) \cup {key} |->
            IF k = key THEN value ELSE dict.value[k]])

\* The objects of a call of summarize_monthly_aggregate_appointments:
\* groupby(...).agg(...).reset_index() makes the grouped frame, the name
\* monthly_aggregate_appointments is bound to it, and
\* calculate_appointment_columns, given the object of that name, assigns the
\* filled counts, the total and the rates to its columns.
SummarizeObjects(pivot, agg_cols, add_rate_cols) ==
    LET keys == {DATE} \cup Range(agg_cols)
        summed == {"ATTENDED", "DID_NOT_ATTEND", "UNKNOWN"}
        grouped == GroupBySum(pivot, keys, summed, MissingKeyRows(pivot, keys))
        objects == NewObject(<<pivot>>, grouped)
        monthly_aggregate_appointments_name == Len(objects)
        calculated == calculate_appointment_columns(
                            objects[monthly_aggregate_appointments_name])
    IN  IF ~((keys \cup summed) \subseteq pivot.columns) THEN <<pivot>>
        ELSE IF ~add_rate_cols \/ calculated.raised # "" THEN objects
        ELSE InPlace(objects, monthly_aggregate_appointments_name, calculated.df)

\* The frame handed to summarize_monthly_aggregate_appointments, as the call
\* leaves it.
SummarizeArgumentAfter(pivot, agg_cols, add_rate_cols) ==
    SummarizeObjects(pivot, agg_cols, add_rate_cols)[1]

BatchAggColsIfNot(agg_cols) ==
    IF agg_cols = None \/ agg_cols = <<>> THEN AGG_COLS ELSE agg_cols

\* if agg_cols is None: agg_cols = AGG_COLS
BatchAggCols(agg_cols) == IF agg_cols = None THEN AGG_COLS ELSE agg_cols

BatchGroupingUpTo(agg_cols, k) == SubSeq(agg_cols, 1, k)

\* The grouping columns of the k-th call of the loop: [agg_col].
BatchGrouping(agg_cols, k) == <<agg_cols[k]>>

\* The loop of batch_summarize_monthly_aggregate_appointments from its k-th
\* dimension on; acc holds the dict built so far and the pivoted frame as the
\* calls so far have left it.  An exception ends the loop.
RECURSIVE BatchLoop(_, _, _, _)
BatchLoop(agg_cols, add_rate_cols, k, acc) ==
    IF k > Len(agg_cols) \/ acc.raised # "" THEN acc
    ELSE LET grouping == BatchGrouping(agg_cols, k)
             summary_df == summarize_monthly_aggregate_appointments(
                                acc.pivot, grouping, add_rate_cols)
             pivot == SummarizeArgumentAfter(acc.pivot, grouping, add_rate_cols)
         IN  BatchLoop(agg_cols, add_rate_cols, k + 1,
                IF summary_df.raised # ""
                THEN [raised |-> summary_df.raised, summaries |-> EmptyDict,
                      pivot |-> pivot]
                ELSE [raised |-> "",
                      summaries |-> DictSet(acc.summaries, agg_cols[k], summary_df.df),
                      pivot |-> pivot])

\* The result: the exception if any, the dict returned, and the pivoted
\* frame as the call leaves it.
batch_summarize_monthly_aggregate_appointments(pivot, agg_cols, add_rate_cols) ==
    BatchLoop(BatchAggCols(agg_cols), add_rate_cols, 1,
              [raised |-> "", summaries |-> EmptyDict, pivot |-> pivot])

(***************************************************************************)
(* plots.py                                                                *)
(***************************************************************************)
\* The number of categories up to which a point plot is drawn.
PlotThreshold == 20

\* Series.nunique(): the number of distinct values, missing ones left out.
nunique(frame, column) ==
    Cardinality({r[column] : r \in DOMAIN frame.rows} \ {NA})

Plot(kind, agg_by) == [kind |-> kind, agg_by |-> agg_by]

point_asserting_fewer(summary_df, agg_by) ==
    IF nunique(summary_df, agg_by) < PlotThreshold
    THEN [raised |-> "", plot |-> Plot("point", agg_by)]
    ELSE [raised |-> "AssertionError", plot |-> Plot("", agg_by)]

point_monthly_attd_rate_by(summary_df, agg_by) ==
    IF nunique(summary_df, agg_by) <= PlotThreshold
    THEN [raised |-> "", plot |-> Plot("point", agg_by)]
    ELSE [raised |-> "AssertionError", plot |-> Plot("", agg_by)]

violin_monthly_attd_rate_by(summary_df, agg_by) ==
    IF nunique(summary_df, agg_by) > PlotThreshold
    THEN [raised |-> "", plot |-> Plot("violin", agg_by)]
    ELSE [raised |-> "AssertionError", plot |-> Plot("", agg_by)]

\* The file save_monthly_attendance_plot writes.
Figure(plot, col_name) ==
    [name |-> <<"monthly_attendance_rate_by_", col_name, ".png">>, kind |-> plot.kind]

\* The figures directory as Path.relative_to(Path.cwd()) sees it: under the
\* working directory, with the path from there, or not under it.
FiguresPath(under_cwd, relative) == [under_cwd |-> under_cwd, relative |-> relative]

FiguresPaths ==
    { FiguresPath(TRUE, "reports/figures/"), FiguresPath(TRUE, ""),
      FiguresPath(FALSE, "") }

SavedPlotMessage(figures_path, col_name) ==
    "Saved plot to " \o figures_path.relative \o "monthly_attendance_rate_by_"
        \o col_name \o ".png"

\* plot.savefig(file_path) replaces a file of that name; then the path
\* relative to the working directory is logged, and relative_to raises
\* ValueError, the file written, for a directory that is not under it.
save_monthly_attendance_plot(plot, col_name, figures_path, saved) ==
    [raised |-> IF figures_path.under_cwd THEN "" ELSE "ValueError",
     figures |-> {f \in saved : f.name # Figure(plot, col_name).name}
                    \cup {Figure(plot, col_name)},
     log |-> IF figures_path.under_cwd
             THEN <<Info(SavedPlotMessage(figures_path, col_name))>> ELSE <<>>]

\* The branch of batch_plot_monthly_attd_rate_by: a violin plot for more
\* categories than the threshold.
IsViolin(n) == n > PlotThreshold

\* The loop of batch_plot_monthly_attd_rate_by from the k-th summary on; acc
\* holds the plots handed to savefig so far, in order, the figures on disk
\* and the records logged.
RECURSIVE PlotLoop(_, _, _, _)
PlotLoop(dict, figures_path, k, acc) ==
    IF k > Len(dict.keys) \/ acc.raised # "" THEN acc
    ELSE LET agg_column == dict.keys[k]
             summary_df == dict.value[agg_column]
             plt == IF IsViolin(nunique(summary_df, agg_column))
                    THEN violin_monthly_attd_rate_by(summary_df, agg_column)
                    ELSE point_monthly_attd_rate_by(summary_df, agg_column)
             save == save_monthly_attendance_plot(
                        plt.plot, agg_column, figures_path, acc.figures)
         IN  PlotLoop(dict, figures_path, k + 1,
                IF plt.raised # ""
                THEN [acc EXCEPT !.raised = plt.raised]
                ELSE [raised |-> save.raised,
                      saved |-> Append(acc.saved, plt.plot),
                      figures |-> save.figures,
                      log |-> acc.log \o save.log])

\* The exception if any, the plots saved in order, the figures on disk and
\* the records logged; figures_path is FIGURES_DIR, saved the files there.
batch_plot_monthly_attd_rate_by(dict, figures_path, saved) ==
    PlotLoop(dict, figures_path, 1,
        [raised |-> "", saved |-> <<>>, figures |-> saved,
         log |-> <<Info("Batch plotting monthly attendance rate by aggregation column")>>])

(***************************************************************************)
(* SpecCalc: calculate_appointment_columns called on a frame of counts.    *)
(* The frame is loaded row by row, then the three steps of the chain run   *)
(* in the order of the chain, each on the frame the step before returned.  *)
(***************************************************************************)
CalcLayouts ==
    { DefaultAppointmentCols,
      DefaultAppointmentCols \cup {"TOTAL_APPOINTMENTS"},
      {"ATTENDED", "DID_NOT_ATTEND"} }

\* The cells a loaded row may hold in column c; a total already present in
\* the input is a leftover of an earlier computation.
CalcCells(c) == IF c = "TOTAL_APPOINTMENTS" THEN {0} ELSE Cells

CalcRows(columns) == {r \in [columns -> Cells] : \A c \in columns : r[c] \in CalcCells(c)}

CalcIdle ==
    /\ log = <<>>
    /\ practice_level_data = EmptyFrame
    /\ mapping_data = EmptyFrame
    /\ merged_data = EmptyFrame
    /\ practice_level_pivot = EmptyFrame
    /\ monthly_aggregate_appointments = EmptyFrame
    /\ args = <<>>
    /\ interim_files = {}
    /\ directory = {}
    /\ raw_data = EmptyFrame
    /\ summaries = EmptyDict
    /\ figures = {}

CalcUnchanged ==
    UNCHANGED <<log, practice_level_data, mapping_data, merged_data,
                practice_level_pivot, monthly_aggregate_appointments, args,
                interim_files,
                directory, raw_data, summaries, figures>>

CalcInit ==
    /\ pc = "load"
    /\ \E columns \in CalcLayouts : df = Frame(columns, EmptyBag)
    /\ trace = <<>>
    /\ raised = ""
    /\ CalcIdle

CalcLoadRow ==
    /\ pc = "load"
    /\ NRows(df) < MaxPivotRows
    /\ \E row \in CalcRows(df.columns) : df' = AddRow(df, row)
    /\ UNCHANGED <<pc, trace, raised>>
    /\ CalcUnchanged

CallCalculateAppointmentColumns ==
    /\ pc = "load"
    /\ pc' = "pipe"
    /\ args' = [frame |-> df]
    /\ UNCHANGED <<df, trace, raised>>
    /\ UNCHANGED <<log, practice_level_data, mapping_data, merged_data,
                   practice_level_pivot, monthly_aggregate_appointments,
                   interim_files, directory, raw_data, summaries, figures>>

CalcStep(name) ==
    /\ pc = "pipe"
    /\ Len(trace) < Len(PipeOrder)
    /\ PipeOrder[Len(trace) + 1] = name
    /\ LET res == PipeStep(name, df)
       IN  /\ df' = res.df
           /\ raised' = res.raised
           /\ pc' = IF res.raised # "" THEN "raised"
                    ELSE IF Len(trace) + 1 = Len(PipeOrder) THEN "done"
                    ELSE "pipe"
    /\ trace' = Append(trace, name)
    /\ CalcUnchanged

CalculateTotalAppointments == CalcStep("calculate_total_appointments")

CalculateAttendedRate == CalcStep("calculate_attended_rate")

CalculateDidNotAttendRate == CalcStep("calculate_did_not_attend_rate")

CalcNext ==
    \/ CalcLoadRow
    \/ CallCalculateAppointmentColumns
    \/ CalculateTotalAppointments
    \/ CalculateAttendedRate
    \/ CalculateDidNotAttendRate

SpecCalc == CalcInit /\ [][CalcNext]_vars

(***************************************************************************)
(* SpecAgg: summarize_monthly_aggregate_appointments called on a pivoted   *)
(* table that is loaded row by row.                                        *)
(***************************************************************************)
\* The tables of the unit tests carry two of the dimensions of AGG_COLS.
Dimensions == {"GP_NAME", "REGION_NAME"}
IndexColumns == {DATE} \cup Dimensions
StatusColumns == {"ATTENDED", "DID_NOT_ATTEND", "UNKNOWN"}

Index(date, gp, region) ==
    [c \in IndexColumns |->
        CASE c = DATE -> date
          [] c = "GP_NAME" -> gp
          [] c = "REGION_NAME" -> region]

\* The (month, practice, region) combinations of the loaded rows; one
\* practice has no region in the mapping.
IndexTuples ==
    { Index("2021-01-01", "Example GP A", "REGION1"),
      Index("2021-01-01", "Example GP B", NA),
      Index("2021-02-01", "Example GP A", "REGION1") }

\* The layout of the pipeline's tables: the month and every column of
\* AGG_COLS. Beside the practice and its region the rows carry one value
\* of each dimension.
FullIndexColumns == {DATE} \cup Range(AGG_COLS)

DimensionCell(c) ==
    CASE c = "SUPPLIER" -> "EMIS"
      [] c = "PCN_NAME" -> "Example PCN"
      [] c = "SUB_ICB_LOCATION_NAME" -> "Example Sub ICB"
      [] c = "ICB_NAME" -> "Example ICB"
      [] c = "HCP_TYPE" -> "GP"
      [] c = "APPT_MODE" -> "Face-to-Face"
      [] c = "NATIONAL_CATEGORY" -> "General Consultation Routine"
      [] c = "TIME_BETWEEN_BOOK_AND_APPT" -> "Same Day"

\* An index tuple in the layout `index`: the cells of idx, and the one value
\* of every dimension idx has not.
IndexIn(index, idx) ==
    [c \in index |-> IF c \in IndexColumns THEN idx[c] ELSE DimensionCell(c)]

IndexLayouts == {IndexColumns, FullIndexColumns}

PivotRows ==
    {[c \in IndexColumns \cup StatusColumns |->
        IF c \in IndexColumns THEN idx[c] ELSE st[c]] :
        idx \in IndexTuples, st \in [StatusColumns -> Cells]}

AggColsChoices == {<<>>, <<"GP_NAME">>, <<"REGION_NAME">>, <<"GP_NAME", "REGION_NAME">>}

AggIdle ==
    /\ df = EmptyFrame
    /\ trace = <<>>
    /\ log = <<>>
    /\ practice_level_data = EmptyFrame
    /\ mapping_data = EmptyFrame
    /\ merged_data = EmptyFrame
    /\ interim_files = {}
    /\ directory = {}
    /\ raw_data = EmptyFrame
    /\ summaries = EmptyDict
    /\ figures = {}

AggUnchanged ==
    UNCHANGED <<df, trace, log, practice_level_data, mapping_data, merged_data,
                interim_files,
                directory, raw_data, summaries, figures>>

AggInit ==
    /\ pc = "load"
    /\ practice_level_pivot = Frame(IndexColumns \cup StatusColumns, EmptyBag)
    /\ monthly_aggregate_appointments = EmptyFrame
    /\ raised = ""
    /\ args = <<>>
    /\ AggIdle

AggLoadRow ==
    /\ pc = "load"
    /\ NRows(practice_level_pivot) < MaxPivotRows
    /\ \E row \in PivotRows : practice_level_pivot' = AddRow(practice_level_pivot, row)
    /\ UNCHANGED <<pc, monthly_aggregate_appointments, raised, args>>
    /\ AggUnchanged

SummarizeMonthlyAggregateAppointments ==
    /\ pc = "load"
    /\ \E agg_cols \in AggColsChoices, add_rate_cols \in BOOLEAN :
        LET res == summarize_monthly_aggregate_appointments(
                        practice_level_pivot, agg_cols, add_rate_cols)
        IN  /\ args' = [agg_cols |-> agg_cols, add_rate_cols |-> add_rate_cols]
            /\ monthly_aggregate_appointments' = res.df
            /\ raised' = res.raised
            /\ pc' = IF res.raised # "" THEN "raised" ELSE "done"
    /\ UNCHANGED practice_level_pivot
    /\ AggUnchanged

AggNext ==
    \/ AggLoadRow
    \/ SummarizeMonthlyAggregateAppointments

SpecAgg == AggInit /\ [][AggNext]_vars

(***************************************************************************)
(* SpecPivot: pivot_practice_level_data called on a long table loaded row  *)
(* by row, and then the aggregation called on the pivoted table, as        *)
(* pipeline.main chains them.                                              *)
(***************************************************************************)
Statuses == {"Attended", "DNA", "Unknown"}

LongColumns(index) == index \cup {"APPT_STATUS", "COUNT_OF_APPOINTMENTS"}

LongRows(index) ==
    {[c \in LongColumns(index) |->
        CASE c = "APPT_STATUS" -> status
          [] c = "COUNT_OF_APPOINTMENTS" -> count
          [] OTHER -> IndexIn(index, idx)[c]] :
        idx \in IndexTuples, status \in Statuses, count \in Counts}

\* The index asked for: none (the default), the index of the unit tests, and
\* a part of it.
PivotIndexChoices == {<<>>, <<DATE, "GP_NAME", "REGION_NAME">>, <<DATE, "GP_NAME">>}

PivotIdle ==
    /\ df = EmptyFrame
    /\ trace = <<>>
    /\ log = <<>>
    /\ mapping_data = EmptyFrame
    /\ merged_data = EmptyFrame
    /\ interim_files = {}
    /\ directory = {}
    /\ raw_data = EmptyFrame
    /\ summaries = EmptyDict
    /\ figures = {}

PivotUnchanged ==
    UNCHANGED <<df, trace, mapping_data, merged_data, interim_files,
                directory, raw_data, summaries, figures>>

PivotInit ==
    /\ pc = "load"
    /\ \E index \in IndexLayouts :
        practice_level_data = Frame(LongColumns(index), EmptyBag)
    /\ practice_level_pivot = EmptyFrame
    /\ monthly_aggregate_appointments = EmptyFrame
    /\ raised = ""
    /\ args = <<>>
    /\ PivotIdle

PivotLoadRow ==
    /\ pc = "load"
    /\ NRows(practice_level_data) < MaxRows
    /\ \E row \in LongRows(practice_level_data.columns
                                \ {"APPT_STATUS", "COUNT_OF_APPOINTMENTS"}) :
        practice_level_data' = AddRow(practice_level_data, row)
    /\ UNCHANGED <<pc, practice_level_pivot, monthly_aggregate_appointments, raised, args,
                   log>>
    /\ PivotUnchanged

PivotPracticeLevelData ==
    /\ pc = "load"
    /\ \E index \in PivotIndexChoices :
        LET res == pivot_practice_level_data(practice_level_data, index,
                        "APPT_STATUS", "COUNT_OF_APPOINTMENTS", <<>>)
        IN  /\ args' = [index |-> index]
            /\ practice_level_pivot' = res.df
            /\ raised' = res.raised
            /\ pc' = IF res.raised # "" THEN "raised" ELSE "pivoted"
    /\ log' = Append(log, Info("Pivoting practice level data"))
    /\ UNCHANGED <<practice_level_data, monthly_aggregate_appointments>>
    /\ PivotUnchanged

SummarizePivot ==
    /\ pc = "pivoted"
    /\ \E agg_cols \in AggColsChoices, add_rate_cols \in BOOLEAN :
        LET res == summarize_monthly_aggregate_appointments(
                        practice_level_pivot, agg_cols, add_rate_cols)
        IN  /\ args' = [index |-> args.index, agg_cols |-> agg_cols,
                        add_rate_cols |-> add_rate_cols]
            /\ monthly_aggregate_appointments' = res.df
            /\ raised' = res.raised
            /\ pc' = IF res.raised # "" THEN "raised" ELSE "done"
    /\ UNCHANGED <<practice_level_data, practice_level_pivot, log>>
    /\ PivotUnchanged

PivotNext ==
    \/ PivotLoadRow
    \/ PivotPracticeLevelData
    \/ SummarizePivot

SpecPivot == PivotInit /\ [][PivotNext]_vars

\* summarize_monthly_appointment_status on the long table, which no stage
\* of main calls: a call of its own on the rows loaded.
SummarizeMonthlyAppointmentStatus ==
    /\ pc = "load"
    /\ LET res == summarize_monthly_appointment_status(practice_level_data)
       IN  /\ monthly_aggregate_appointments' = res.df
           /\ log' = log \o res.log
           /\ raised' = res.raised
           /\ pc' = IF res.raised # "" THEN "raised" ELSE "done"
    /\ args' = [call |-> "summarize_monthly_appointment_status"]
    /\ UNCHANGED <<practice_level_data, practice_level_pivot>>
    /\ PivotUnchanged

StatusNext ==
    \/ PivotLoadRow
    \/ SummarizeMonthlyAppointmentStatus

SpecStatus == PivotInit /\ [][StatusNext]_vars

(***************************************************************************)
(* SpecMerge: the tidied practice level rows and the mapping rows are      *)
(* loaded, then either merge_mapping_data_with_practice_level_data is      *)
(* called on them, or a caller merges them itself, with a join type and an *)
(* indicator column of its choice, and hands the result to check_merge.    *)
(***************************************************************************)
\* One practice is in both tables, one has appointments and no mapping row,
\* one has a mapping row and no appointments.
PracticeGpCodes == {"A81001", "A81002"}
MappingGpCodes == {"A81001", "A81003"}
GpNames == {"Example GP A", "Example GP B"}

PracticeLayouts ==
    { {"GP_CODE", "COUNT_OF_APPOINTMENTS"},
      {"GP_CODE", "COUNT_OF_APPOINTMENTS", "_merge"} }

MappingColumns == {"GP_CODE", "GP_NAME"}

\* A practice level frame may carry the indicator of an earlier merge.
PracticeRows(columns) ==
    {[c \in columns |->
        CASE c = "GP_CODE" -> code
          [] c = "COUNT_OF_APPOINTMENTS" -> count
          [] c = "_merge" -> "both"] : code \in PracticeGpCodes, count \in Counts}

MappingRows ==
    {[c \in MappingColumns |-> IF c = "GP_CODE" THEN code ELSE name] :
        code \in MappingGpCodes, name \in GpNames}

MergeHows == {"inner", "left", "outer"}
IndicatorNames == {"_merge", "_indicator"}

MergeIdle ==
    /\ df = EmptyFrame
    /\ trace = <<>>
    /\ practice_level_pivot = EmptyFrame
    /\ monthly_aggregate_appointments = EmptyFrame
    /\ directory = {}
    /\ raw_data = EmptyFrame
    /\ summaries = EmptyDict
    /\ figures = {}

MergeUnchanged ==
    UNCHANGED <<df, trace, practice_level_pivot, monthly_aggregate_appointments,
                directory, raw_data, summaries, figures>>

MergeInit ==
    /\ pc = "load"
    /\ \E columns \in PracticeLayouts : practice_level_data = Frame(columns, EmptyBag)
    /\ mapping_data = Frame(MappingColumns, EmptyBag)
    /\ merged_data = EmptyFrame
    /\ log = <<>>
    /\ raised = ""
    /\ args = <<>>
    /\ interim_files = {}
    /\ MergeIdle

MergeLoadPracticeRow ==
    /\ pc = "load"
    /\ NRows(practice_level_data) < MaxRows
    /\ \E row \in PracticeRows(practice_level_data.columns) :
        practice_level_data' = AddRow(practice_level_data, row)
    /\ UNCHANGED <<pc, mapping_data, merged_data, log, raised, args, interim_files>>
    /\ MergeUnchanged

MergeLoadMappingRow ==
    /\ pc = "load"
    /\ NRows(mapping_data) < MaxRows
    /\ \E row \in MappingRows : mapping_data' = AddRow(mapping_data, row)
    /\ UNCHANGED <<pc, practice_level_data, merged_data, log, raised, args, interim_files>>
    /\ MergeUnchanged

MergeMappingDataWithPracticeLevelData ==
    /\ pc = "load"
    /\ \E save_interim_output \in BOOLEAN :
        LET res == merge_mapping_data_with_practice_level_data(
                        practice_level_data, mapping_data, save_interim_output)
        IN  /\ args' = [call |-> "merge_mapping_data_with_practice_level_data",
                        merge_column |-> "_merge", how |-> MergeHow,
                        save_interim_output |-> save_interim_output]
            /\ merged_data' = res.df
            /\ log' = log \o res.log
            /\ raised' = res.raised
            /\ interim_files' = interim_files \cup res.files
            /\ pc' = IF res.raised # "" THEN "raised" ELSE "done"
    /\ UNCHANGED <<practice_level_data, mapping_data>>
    /\ MergeUnchanged

\* A caller's own pd.merge(..., how=how, indicator=name).pipe(check_merge, name).
CheckMerge ==
    /\ pc = "load"
    /\ \E how \in MergeHows, name \in IndicatorNames :
        LET merged == Merge(practice_level_data, mapping_data, "GP_CODE", how, name)
            res == check_merge(merged.df, name)
        IN  /\ merged.raised = ""
            /\ args' = [call |-> "check_merge", merge_column |-> name, how |-> how,
                        save_interim_output |-> FALSE]
            /\ merged_data' = res.df
            /\ log' = log \o res.log
            /\ raised' = res.raised
            /\ pc' = IF res.raised # "" THEN "raised" ELSE "done"
    /\ UNCHANGED <<practice_level_data, mapping_data, interim_files>>
    /\ MergeUnchanged

MergeNext ==
    \/ MergeLoadPracticeRow
    \/ MergeLoadMappingRow
    \/ MergeMappingDataWithPracticeLevelData
    \/ CheckMerge

SpecMerge == MergeInit /\ [][MergeNext]_vars

(***************************************************************************)
(* SpecTidy: tidy_practice_level_data called on a raw table that is loaded *)
(* row by row.                                                             *)
(***************************************************************************)
\* The month-start texts of the loaded rows: 01SEP2024, 01Sep2024 and
\* 01AUG2024, the day 31SEP2024 that does not exist, the ISO text
\* 2024-09-01, and the empty cell.
RawDateTexts ==
    { <<"01", "SEP", "2024">>, <<"01", "Sep", "2024">>, <<"01", "AUG", "2024">>,
      <<"31", "SEP", "2024">>, <<"2024", "-", "09", "-", "01">>, <<>> }

\* A raw table has the selected columns; it may have more (the crosstab
\* files do) or lack one.
RawLayouts ==
    { TidyColumns,
      TidyColumns \cup {"SUPPLIER"},
      TidyColumns \ {"HCP_TYPE"} }

RawStatuses == {"Attended", "Unknown"}

RawCell(c, date, status) ==
    CASE c = "APPOINTMENT_MONTH_START_DATE" -> date
      [] c = "APPT_STATUS" -> status
      [] c = "COUNT_OF_APPOINTMENTS" -> MaxCount
      [] c = "GP_CODE" -> "A81001"
      [] c = "HCP_TYPE" -> "GP"
      [] c = "APPT_MODE" -> "Face-to-Face"
      [] c = "NATIONAL_CATEGORY" -> "General Consultation Routine"
      [] c = "TIME_BETWEEN_BOOK_AND_APPT" -> "Same Day"
      [] c = "SUPPLIER" -> "EMIS"
      [] c = "GP_NAME" -> "Example GP A"
      [] c = "PCN_CODE" -> "U00001"
      [] c = "PCN_NAME" -> "Example PCN"
      [] c = "SUB_ICB_LOCATION_CODE" -> "00L"
      [] c = "SUB_ICB_LOCATION_NAME" -> "Example Sub ICB"

RawRows(columns) ==
    {[c \in columns |-> RawCell(c, date, status)] :
        date \in RawDateTexts, status \in RawStatuses}

TidyIdle ==
    /\ df = EmptyFrame
    /\ trace = <<>>
    /\ mapping_data = EmptyFrame
    /\ merged_data = EmptyFrame
    /\ practice_level_pivot = EmptyFrame
    /\ monthly_aggregate_appointments = EmptyFrame
    /\ directory = {}
    /\ summaries = EmptyDict
    /\ figures = {}

TidyUnchanged ==
    UNCHANGED <<df, trace, mapping_data, merged_data, practice_level_pivot,
                monthly_aggregate_appointments, directory, summaries, figures>>

TidyInit ==
    /\ pc = "load"
    /\ \E columns \in RawLayouts : raw_data = Frame(columns, EmptyBag)
    /\ practice_level_data = EmptyFrame
    /\ log = <<>>
    /\ raised = ""
    /\ args = <<>>
    /\ interim_files = {}
    /\ TidyIdle

TidyLoadRow ==
    /\ pc = "load"
    /\ NRows(raw_data) < MaxRawRows
    /\ \E row \in RawRows(raw_data.columns) : raw_data' = AddRow(raw_data, row)
    /\ UNCHANGED <<pc, practice_level_data, log, raised, args, interim_files>>
    /\ TidyUnchanged

TidyPracticeLevelData ==
    /\ pc = "load"
    /\ \E save_interim_output \in BOOLEAN :
        LET res == tidy_practice_level_data(raw_data, save_interim_output)
        IN  /\ args' = [practice_level_data |-> raw_data,
                        save_interim_output |-> save_interim_output]
            /\ practice_level_data' = res.df
            /\ raw_data' = TidyArgumentAfter(raw_data)
            /\ log' = log \o res.log
            /\ raised' = res.raised
            /\ interim_files' = interim_files \cup res.files
            /\ pc' = IF res.raised # "" THEN "raised" ELSE "done"
    /\ TidyUnchanged

TidyNext ==
    \/ TidyLoadRow
    \/ TidyPracticeLevelData

SpecTidy == TidyInit /\ [][TidyNext]_vars

(***************************************************************************)
(* SpecRead: files are put into the raw data directory and filled row by   *)
(* row, then read_practice_level_data is called on the directory.          *)
(***************************************************************************)
\* Two crosstab files, the mapping file and a crosstab archive.
FileNames ==
    { <<"Practice_Level_Crosstab", "_Aug_24", ".csv">>,
      <<"Practice_Level_Crosstab", "_Sep_24", ".csv">>,
      <<"Mapping", ".csv">>,
      <<"Practice_Level_Crosstab", "_Sep_24", ".zip">> }

FileRows ==
    {[c \in TidyColumns |-> RawCell(c, date, "Attended")] :
        date \in {<<"01", "AUG", "2024">>, <<"01", "SEP", "2024">>}}

ReadIdle ==
    /\ df = EmptyFrame
    /\ trace = <<>>
    /\ practice_level_data = EmptyFrame
    /\ mapping_data = EmptyFrame
    /\ merged_data = EmptyFrame
    /\ practice_level_pivot = EmptyFrame
    /\ monthly_aggregate_appointments = EmptyFrame
    /\ interim_files = {}
    /\ summaries = EmptyDict
    /\ figures = {}

ReadUnchanged ==
    UNCHANGED <<df, trace, practice_level_data, mapping_data, merged_data,
                practice_level_pivot, monthly_aggregate_appointments,
                interim_files, summaries, figures>>

ReadInit ==
    /\ pc = "load"
    /\ directory = {}
    /\ raw_data = EmptyFrame
    /\ log = <<>>
    /\ raised = ""
    /\ args = <<>>
    /\ ReadIdle

CreateFile ==
    /\ pc = "load"
    /\ \E name \in FileNames :
        /\ \A f \in directory : f.name # name
        /\ directory' = directory \cup {File(name, Frame(TidyColumns, EmptyBag))}
    /\ UNCHANGED <<pc, raw_data, log, raised, args>>
    /\ ReadUnchanged

WriteFileRow ==
    /\ pc = "load"
    /\ \E f \in directory, row \in FileRows :
        /\ NRows(f.content) < MaxFileRows
        /\ directory' = (directory \ {f}) \cup {File(f.name, AddRow(f.content, row))}
    /\ UNCHANGED <<pc, raw_data, log, raised, args>>
    /\ ReadUnchanged

ReadPracticeLevelData ==
    /\ pc = "load"
    /\ LET res == read_practice_level_data(directory, "Practice_Level_Crosstab")
       IN  /\ args' = [file_starts_with |-> "Practice_Level_Crosstab"]
           /\ raw_data' = res.df
           /\ log' = log \o res.log
           /\ raised' = res.raised
           /\ pc' = IF res.raised # "" THEN "raised" ELSE "done"
    /\ UNCHANGED directory
    /\ ReadUnchanged

ReadNext ==
    \/ CreateFile
    \/ WriteFileRow
    \/ ReadPracticeLevelData

SpecRead == ReadInit /\ [][ReadNext]_vars

(***************************************************************************)
(* SpecBatch: batch_summarize_monthly_aggregate_appointments called on a   *)
(* pivoted table that is loaded row by row, with a list of dimensions.     *)
(***************************************************************************)
\* The status cells of the loaded rows: counts with a missing one, no
\* appointment at all, and a missing count beside present ones.
BatchStatusCells ==
    { [c \in StatusColumns |->
        CASE c = "ATTENDED" -> MaxCount [] c = "DID_NOT_ATTEND" -> 0 [] OTHER -> NaN],
      [c \in StatusColumns |-> 0],
      [c \in StatusColumns |->
        CASE c = "ATTENDED" -> NaN [] OTHER -> MaxCount] }

\* The index tuples of the loaded rows: those of the unit tests, and a
\* practice whose only row has the month that tidy leaves for a missing
\* month-start cell.
BatchIndexTuples ==
    IndexTuples \cup {Index(NaT, "Example GP C", "REGION2")}

BatchRows(index) ==
    {[c \in index \cup StatusColumns |->
        IF c \in index THEN IndexIn(index, idx)[c] ELSE st[c]] :
        idx \in BatchIndexTuples, st \in BatchStatusCells}

\* The dimension lists asked for: none (the default, every column of
\* AGG_COLS), the empty list, lists in both orders, a dimension twice, and a
\* dimension that the table of the unit tests lacks.
BatchAggColsChoices ==
    { None, <<>>, <<"GP_NAME">>, <<"REGION_NAME">>,
      <<"GP_NAME", "REGION_NAME">>, <<"REGION_NAME", "GP_NAME">>,
      <<"GP_NAME", "GP_NAME">>, <<"GP_NAME", "SUPPLIER">> }

BatchInit ==
    /\ pc = "load"
    /\ \E index \in IndexLayouts :
        practice_level_pivot = Frame(index \cup StatusColumns, EmptyBag)
    /\ monthly_aggregate_appointments = EmptyFrame
    /\ raised = ""
    /\ args = <<>>
    /\ AggIdle

BatchLoadRow ==
    /\ pc = "load"
    /\ NRows(practice_level_pivot) < MaxPivotRows
    /\ \E row \in BatchRows(practice_level_pivot.columns \ StatusColumns) :
        practice_level_pivot' = AddRow(practice_level_pivot, row)
    /\ UNCHANGED <<pc, monthly_aggregate_appointments, raised, args>>
    /\ AggUnchanged

BatchSummarizeMonthlyAggregateAppointments ==
    /\ pc = "load"
    /\ \E agg_cols \in BatchAggColsChoices, add_rate_cols \in BOOLEAN :
        LET res == batch_summarize_monthly_aggregate_appointments(
                        practice_level_pivot, agg_cols, add_rate_cols)
        IN  /\ args' = [practice_level_pivot |-> practice_level_pivot,
                        agg_cols |-> agg_cols, add_rate_cols |-> add_rate_cols]
            /\ summaries' = res.summaries
            /\ practice_level_pivot' = res.pivot
            /\ raised' = res.raised
            /\ pc' = IF res.raised # "" THEN "raised" ELSE "done"
    /\ log' = Append(log, Info("Batch summarizing monthly aggregate appointments"))
    /\ UNCHANGED <<df, trace, practice_level_data, mapping_data, merged_data,
                   interim_files, directory, raw_data, figures,
                   monthly_aggregate_appointments>>

BatchNext ==
    \/ BatchLoadRow
    \/ BatchSummarizeMonthlyAggregateAppointments

SpecBatch == BatchInit /\ [][BatchNext]_vars

(***************************************************************************)
(* SpecPlot: batch_plot_monthly_attd_rate_by called on a dict of           *)
(* summaries whose aggregation columns hold up to MaxUnique categories.    *)
(***************************************************************************)
CategoryNames ==
    << "category 01", "category 02", "category 03", "category 04", "category 05",
       "category 06", "category 07", "category 08", "category 09", "category 10",
       "category 11", "category 12", "category 13", "category 14", "category 15",
       "category 16", "category 17", "category 18", "category 19", "category 20",
       "category 21", "category 22", "category 23", "category 24" >>

PlotMonths == {{"2021-01-01"}, {"2021-01-01", "2021-02-01"}}

\* A summary by agg_column with the first n categories in each of the months.
PlotSummary(agg_column, n, months) ==
    Frame({DATE, agg_column, "ATTENDED_RATE"},
          SetToBag({[c \in {DATE, agg_column, "ATTENDED_RATE"} |->
                        CASE c = DATE -> month
                          [] c = agg_column -> CategoryNames[i]
                          [] OTHER -> [num |-> 1, den |-> 1]] :
                    month \in months, i \in 1..n}))

PlotSummaries(agg_column) ==
    {PlotSummary(agg_column, n, months) : n \in 0..MaxUnique, months \in PlotMonths}

PlotIdle ==
    /\ df = EmptyFrame
    /\ practice_level_data = EmptyFrame
    /\ mapping_data = EmptyFrame
    /\ merged_data = EmptyFrame
    /\ practice_level_pivot = EmptyFrame
    /\ monthly_aggregate_appointments = EmptyFrame
    /\ interim_files = {}
    /\ directory = {}
    /\ raw_data = EmptyFrame

PlotUnchanged ==
    UNCHANGED <<df, practice_level_data, mapping_data, merged_data,
                practice_level_pivot, monthly_aggregate_appointments,
                interim_files, directory, raw_data>>

PlotInit ==
    /\ pc = "load"
    /\ log = <<>>
    /\ summaries = EmptyDict
    /\ figures = {}
    /\ trace = <<>>
    /\ raised = ""
    /\ args = <<>>
    /\ PlotIdle

\* The next summary is put into the dict.
PlotLoadSummary ==
    /\ pc = "load"
    /\ \E agg_column \in Dimensions \ Range(summaries.keys) :
        \E summary_df \in PlotSummaries(agg_column) :
            summaries' = DictSet(summaries, agg_column, summary_df)
    /\ UNCHANGED <<pc, figures, trace, raised, args, log>>
    /\ PlotUnchanged

BatchPlotMonthlyAttdRateBy ==
    /\ pc = "load"
    /\ \E figures_path \in FiguresPaths :
        LET res == batch_plot_monthly_attd_rate_by(summaries, figures_path, figures)
        IN  /\ figures' = res.figures
            /\ trace' = res.saved
            /\ log' = res.log
            /\ raised' = res.raised
            /\ pc' = IF res.raised # "" THEN "raised" ELSE "done"
            /\ args' = [summaries |-> summaries, figures_path |-> figures_path]
    /\ UNCHANGED summaries
    /\ PlotUnchanged

PlotNext ==
    \/ PlotLoadSummary
    \/ BatchPlotMonthlyAttdRateBy

SpecPlot == PlotInit /\ [][PlotNext]_vars

(***************************************************************************)
(* SpecScenario: the rows of one practice in one month, with the status    *)
(* labels of the test fixtures or of the published data, are pivoted on    *)
(* (date, practice, region) and then aggregated by month alone.            *)
(***************************************************************************)
FixtureStatuses == {"ATTENDED", "DID NOT ATTEND", "UNKNOWN"}

ScenarioStatuses == FixtureStatuses \cup Statuses

ScenarioCounts == {1, 2, 3}

ScenarioIndex == Index("2021-01-01", "A", "REGION1")

ScenarioRow(status, count) ==
    [c \in LongColumns(IndexColumns) |->
        CASE c = "APPT_STATUS" -> status
          [] c = "COUNT_OF_APPOINTMENTS" -> count
          [] OTHER -> ScenarioIndex[c]]

ScenarioRows ==
    {ScenarioRow(status, count) : status \in ScenarioStatuses, count \in ScenarioCounts}

ScenarioInit ==
    /\ pc = "load"
    /\ practice_level_data = Frame(LongColumns(IndexColumns), EmptyBag)
    /\ practice_level_pivot = EmptyFrame
    /\ monthly_aggregate_appointments = EmptyFrame
    /\ raised = ""
    /\ args = <<>>
    /\ PivotIdle

\* The rows loaded never make a table whose pivot has all three status
\* columns and one of them twice: agg then finds every column it sums, and
\* what it does with the repeated one differs between versions of pandas.
\* (With a status column missing it raises KeyError before it selects any.)
ScenarioAdmits(data) ==
    LET labels == {r["APPT_STATUS"] : r \in DOMAIN data.rows}
    IN  \/ RepeatedLabels(DefaultRenameColumns, labels) = {}
        \/ \E c \in {"ATTENDED", "DID_NOT_ATTEND", "UNKNOWN"} :
                c \notin {Rename(DefaultRenameColumns, l) : l \in labels}

ScenarioLoadRow ==
    /\ pc = "load"
    /\ NRows(practice_level_data) < MaxScenarioRows
    /\ \E row \in ScenarioRows :
        /\ ScenarioAdmits(AddRow(practice_level_data, row))
        /\ practice_level_data' = AddRow(practice_level_data, row)
    /\ UNCHANGED <<pc, practice_level_pivot, monthly_aggregate_appointments, raised, args,
                   log>>
    /\ PivotUnchanged

ScenarioPivot ==
    /\ pc = "load"
    /\ LET index == <<DATE, "GP_NAME", "REGION_NAME">>
           res == pivot_practice_level_data(practice_level_data, index,
                        "APPT_STATUS", "COUNT_OF_APPOINTMENTS", <<>>)
       IN  /\ args' = [index |-> index]
           /\ practice_level_pivot' = res.df
           /\ raised' = res.raised
           /\ pc' = IF res.raised # "" THEN "raised" ELSE "pivoted"
    /\ log' = Append(log, Info("Pivoting practice level data"))
    /\ UNCHANGED <<practice_level_data, monthly_aggregate_appointments>>
    /\ PivotUnchanged

ScenarioSummarize ==
    /\ pc = "pivoted"
    /\ LET res == summarize_monthly_aggregate_appointments(
                        practice_level_pivot, <<>>, TRUE)
       IN  /\ args' = [index |-> args.index, agg_cols |-> <<>>, add_rate_cols |-> TRUE]
           /\ monthly_aggregate_appointments' = res.df
           /\ raised' = res.raised
           /\ pc' = IF res.raised # "" THEN "raised" ELSE "done"
    /\ UNCHANGED <<practice_level_data, practice_level_pivot, log>>
    /\ PivotUnchanged

ScenarioNext ==
    \/ ScenarioLoadRow
    \/ ScenarioPivot
    \/ ScenarioSummarize

SpecScenario == ScenarioInit /\ [][ScenarioNext]_vars

(***************************************************************************)
(* SpecMain: one run of pipeline.main.  The raw data directory is empty or *)
(* holds a mapping file of an earlier download; the request of the first   *)
(* stage fails, brings a body that is no archive, or brings an archive of  *)
(* a mapping file and a crosstab file.  Each stage is one step; trace      *)
(* holds the stages started, args the flag of the run and every table as   *)
(* it was when it was handed to a stage.                                   *)
(***************************************************************************)
\* The calls of main, in the order of its statements; "save_summaries" is
\* the if-statement that writes the summaries.
MainStages ==
    << "download_and_extract_zip", "read_mapping_data", "read_practice_level_data",
       "tidy_practice_level_data", "merge_mapping_data_with_practice_level_data",
       "pivot_practice_level_data",
       "batch_summarize_monthly_aggregate_appointments", "save_summaries",
       "batch_plot_monthly_attd_rate_by" >>

\* The statement after a call of main: the next call, and after the last
\* one the logging of the completion message.
NextStage(stage) ==
    LET k == CHOOSE i \in DOMAIN MainStages : MainStages[i] = stage
    IN  IF k = Len(MainStages) THEN "success" ELSE MainStages[k + 1]

ContinueAfter(exc, stage) == NextStage(stage)

\* main catches nothing: an exception of a call ends the run.
Propagate(exc, stage) == IF exc # "" THEN "raised" ELSE NextStage(stage)

MappingFileName == <<"Mapping", ".csv">>
CrosstabFileName == <<"Practice_Level_Crosstab", "_Sep_24", ".csv">>

\* The mapping file has the practice code and the columns of AGG_COLS that
\* tidy_practice_level_data does not select from the crosstab rows.
MainMappingColumns == {"GP_CODE"} \cup (Range(AGG_COLS) \ TidyColumns)

MainMappingRow(code, name, region) ==
    [c \in MainMappingColumns |->
        CASE c = "GP_CODE" -> code
          [] c = "GP_NAME" -> name
          [] c = "REGION_NAME" -> region
          [] OTHER -> DimensionCell(c)]

\* The mapping tables of the archive: the practice of the crosstab rows
\* alone, or with a practice that has no appointments.
MainMappings ==
    { Frame(MainMappingColumns,
            SetToBag({MainMappingRow("A81001", "Example GP A", "North East")})),
      Frame(MainMappingColumns,
            SetToBag({MainMappingRow("A81001", "Example GP A", "North East"),
                      MainMappingRow("A81003", "Example GP B", "London")})) }

\* A mapping file of an earlier download, without the practice code.
StaleMapping ==
    Frame({"GP_NAME", "REGION_NAME"},
          SetToBag({[c \in {"GP_NAME", "REGION_NAME"} |->
                        IF c = "GP_NAME" THEN "Example GP A" ELSE "North East"]}))

\* The columns of a crosstab file.
MainRawColumns ==
    TidyColumns \cup {"GP_NAME", "SUPPLIER", "PCN_CODE", "PCN_NAME",
                      "SUB_ICB_LOCATION_CODE", "SUB_ICB_LOCATION_NAME"}

\* The crosstab rows: one practice, two months and a month-start that is no
\* date, the three statuses of the published data.
MainRawRows ==
    {[c \in MainRawColumns |-> RawCell(c, date, status)] :
        date \in { <<"01", "SEP", "2024">>, <<"01", "AUG", "2024">>,
                   <<"31", "SEP", "2024">> },
        status \in Statuses}

\* The frames of 1 to n rows.
RECURSIVE MainFrames(_, _, _)
MainFrames(columns, rows, n) ==
    IF n = 1 THEN {Frame(columns, SetToBag({r})) : r \in rows}
    ELSE LET smaller == MainFrames(columns, rows, n - 1)
         IN  smaller \cup {AddRow(f, r) : f \in smaller, r \in rows}

\* The crosstab tables of the archive; one lacks a column tidy selects.
MainCrosstabs ==
    MainFrames(MainRawColumns, MainRawRows, MaxMainRows)
        \cup {Frame(MainRawColumns \ {"HCP_TYPE"},
                    SetToBag({[c \in MainRawColumns \ {"HCP_TYPE"} |->
                                RawCell(c, <<"01", "SEP", "2024">>, "Attended")]}))}

\* What the request brings.
MainArchives ==
    {Body("", {File(MappingFileName, m), File(CrosstabFileName, c)}) :
            m \in MainMappings, c \in MainCrosstabs}
    \cup {Body("", {File(MappingFileName, m)}) : m \in MainMappings}
    \cup {Body("", {File(CrosstabFileName, c)}) :
            c \in MainFrames(MainRawColumns, MainRawRows, 1)}

\* The request fails, or the body comes whole, or the connection breaks
\* when a part of it is written.
MainResponses ==
    {Response("RequestException", FALSE, UnreadableBody)}
    \cup {Response("", FALSE, body) : body \in MainArchives \cup {UnreadableBody}}
    \cup {Response("RequestException", TRUE, body) :
            body \in MainArchives \cup {UnreadableBody}}

\* What an earlier run left that failed on a body that is no zip archive
\* or whose connection broke in the data of a member.
StaleZip == File(ZipFileName, UnreadableBody)

\* An archive that was downloaded and not extracted: the three statuses of
\* one practice in one month, and the mapping of two practices.
StaleArchive ==
    File(ZipFileName,
         CHOOSE response \in MainArchives :
            /\ response.raised = ""
            /\ \E m \in response.members :
                    /\ m.name = CrosstabFileName
                    /\ {r["APPT_STATUS"] : r \in DOMAIN m.content.rows} = Statuses
                    /\ \A r \in DOMAIN m.content.rows :
                            r[DATE] = <<"01", "SEP", "2024">>
            /\ \E m \in response.members :
                    m.name = MappingFileName /\ NRows(m.content) = 2)

\* The raw data directory before the run: empty, or with a file of an
\* earlier run.
MainInitialDirectories ==
    { {}, {File(MappingFileName, StaleMapping)}, {StaleZip}, {StaleArchive} }

\* summaries.items(): value.to_csv(Path("data", f"{key}_summary.csv"))
SummaryFiles(dict) == {dict.keys[i] \o "_summary.csv" : i \in DOMAIN dict.keys}

MainArgs ==
    [_save_interim_output |-> FALSE, raw_data |-> EmptyFrame,
     practice_level_data |-> EmptyFrame, mapping_data |-> EmptyFrame,
     merged_data |-> EmptyFrame, practice_level_pivot |-> EmptyFrame]

MainInit ==
    /\ pc = "start"
    /\ directory \in MainInitialDirectories
    /\ df = EmptyFrame
    /\ trace = <<>>
    /\ raised = ""
    /\ log = <<>>
    /\ raw_data = EmptyFrame
    /\ practice_level_data = EmptyFrame
    /\ mapping_data = EmptyFrame
    /\ merged_data = EmptyFrame
    /\ practice_level_pivot = EmptyFrame
    /\ monthly_aggregate_appointments = EmptyFrame
    /\ summaries = EmptyDict
    /\ args = MainArgs
    /\ interim_files = {}
    /\ figures = {}

\* The state no stage of main touches.
MainUnchanged == UNCHANGED <<df, monthly_aggregate_appointments>>

\* main(_save_interim_output) is called and logs its start.
MainStart ==
    /\ pc = "start"
    /\ \E save_interim_output \in BOOLEAN :
        args' = [args EXCEPT !._save_interim_output = save_interim_output]
    /\ log' = Append(log, LogRecord("START",
                            "Starting the GP Appointment Data Pipeline", 0, ""))
    /\ pc' = MainStages[1]
    /\ UNCHANGED <<trace, raised, directory, raw_data, practice_level_data,
                   mapping_data, merged_data, practice_level_pivot, summaries,
                   interim_files, figures>>
    /\ MainUnchanged

MainDownloadAndExtractZip ==
    /\ pc = "download_and_extract_zip"
    /\ \E response \in MainResponses :
        LET res == download_and_extract_zip(directory, response)
        IN  /\ directory' = res.directory
            /\ log' = log \o res.log
            /\ raised' = res.raised
            /\ pc' = Propagate(res.raised, pc)
    /\ trace' = Append(trace, pc)
    /\ UNCHANGED <<args, raw_data, practice_level_data, mapping_data, merged_data,
                   practice_level_pivot, summaries, interim_files, figures>>
    /\ MainUnchanged

MainReadMappingData ==
    /\ pc = "read_mapping_data"
    /\ LET res == read_mapping_data(directory)
       IN  /\ mapping_data' = res.df
           /\ log' = log \o res.log
           /\ raised' = res.raised
           /\ pc' = Propagate(res.raised, pc)
    /\ trace' = Append(trace, pc)
    /\ UNCHANGED <<args, directory, raw_data, practice_level_data, merged_data,
                   practice_level_pivot, summaries, interim_files, figures>>
    /\ MainUnchanged

MainReadPracticeLevelData ==
    /\ pc = "read_practice_level_data"
    /\ LET res == read_practice_level_data(directory, "Practice_Level_Crosstab")
       IN  /\ raw_data' = res.df
           /\ log' = log \o res.log
           /\ raised' = res.raised
           /\ pc' = Propagate(res.raised, pc)
    /\ trace' = Append(trace, pc)
    /\ UNCHANGED <<args, directory, practice_level_data, mapping_data, merged_data,
                   practice_level_pivot, summaries, interim_files, figures>>
    /\ MainUnchanged

MainTidyPracticeLevelData ==
    /\ pc = "tidy_practice_level_data"
    /\ LET res == tidy_practice_level_data(raw_data, args._save_interim_output)
       IN  /\ args' = [args EXCEPT !.raw_data = raw_data]
           /\ practice_level_data' = res.df
           /\ raw_data' = TidyArgumentAfter(raw_data)
           /\ log' = log \o res.log
           /\ raised' = res.raised
           /\ interim_files' = interim_files \cup res.files
           /\ pc' = Propagate(res.raised, pc)
    /\ trace' = Append(trace, pc)
    /\ UNCHANGED <<directory, mapping_data, merged_data, practice_level_pivot,
                   summaries, figures>>
    /\ MainUnchanged

MainMergeMappingDataWithPracticeLevelData ==
    /\ pc = "merge_mapping_data_with_practice_level_data"
    /\ LET res == merge_mapping_data_with_practice_level_data(
                        practice_level_data, mapping_data, args._save_interim_output)
           after == MergeArgumentsAfter(practice_level_data, mapping_data)
       IN  /\ args' = [args EXCEPT !.practice_level_data = practice_level_data,
                                   !.mapping_data = mapping_data]
           /\ merged_data' = res.df
           /\ practice_level_data' = after[1]
           /\ mapping_data' = after[2]
           /\ log' = log \o res.log
           /\ raised' = res.raised
           /\ interim_files' = interim_files \cup res.files
           /\ pc' = Propagate(res.raised, pc)
    /\ trace' = Append(trace, pc)
    /\ UNCHANGED <<directory, raw_data, practice_level_pivot, summaries, figures>>
    /\ MainUnchanged

MainPivotPracticeLevelData ==
    /\ pc = "pivot_practice_level_data"
    /\ LET res == pivot_practice_level_data(merged_data, <<>>, "APPT_STATUS",
                        "COUNT_OF_APPOINTMENTS", <<>>)
       IN  /\ args' = [args EXCEPT !.merged_data = merged_data]
           /\ practice_level_pivot' = res.df
           /\ merged_data' = PivotArgumentAfter(merged_data)
           /\ log' = Append(log, Info("Pivoting practice level data"))
           /\ raised' = res.raised
           /\ pc' = Propagate(res.raised, pc)
    /\ trace' = Append(trace, pc)
    /\ UNCHANGED <<directory, raw_data, practice_level_data, mapping_data,
                   summaries, interim_files, figures>>
    /\ MainUnchanged

MainBatchSummarizeMonthlyAggregateAppointments ==
    /\ pc = "batch_summarize_monthly_aggregate_appointments"
    /\ LET res == batch_summarize_monthly_aggregate_appointments(
                        practice_level_pivot, None, TRUE)
       IN  /\ args' = [args EXCEPT !.practice_level_pivot = practice_level_pivot]
           /\ summaries' = res.summaries
           /\ practice_level_pivot' = res.pivot
           /\ log' = Append(log, Info("Batch summarizing monthly aggregate appointments"))
           /\ raised' = res.raised
           /\ pc' = Propagate(res.raised, pc)
    /\ trace' = Append(trace, pc)
    /\ UNCHANGED <<directory, raw_data, practice_level_data, mapping_data,
                   merged_data, interim_files, figures>>
    /\ MainUnchanged

\* for key, value in summaries.items(): value.to_csv(Path("data", ...)):
\* the files written and the exception if any; to_csv raises OSError for
\* the first summary when the working directory has no directory data.
save_summaries(dict, data_exists) ==
    IF Len(dict.keys) > 0 /\ ~data_exists
    THEN [raised |-> "OSError", files |-> {}]
    ELSE [raised |-> "", files |-> SummaryFiles(dict)]

\* if _save_interim_output: every summary is written to its csv file.
MainSaveSummaries ==
    /\ pc = "save_summaries"
    /\ \E data_exists \in BOOLEAN :
        LET res == IF args._save_interim_output
                   THEN save_summaries(summaries, data_exists)
                   ELSE [raised |-> "", files |-> {}]
        IN  /\ interim_files' = interim_files \cup res.files
            /\ raised' = res.raised
            /\ pc' = Propagate(res.raised, pc)
    /\ trace' = Append(trace, pc)
    /\ UNCHANGED <<args, log, directory, raw_data, practice_level_data,
                   mapping_data, merged_data, practice_level_pivot, summaries,
                   figures>>
    /\ MainUnchanged

MainBatchPlotMonthlyAttdRateBy ==
    /\ pc = "batch_plot_monthly_attd_rate_by"
    /\ \E figures_path \in FiguresPaths :
        LET res == batch_plot_monthly_attd_rate_by(summaries, figures_path, figures)
        IN  /\ figures' = res.figures
            /\ log' = log \o res.log
            /\ raised' = res.raised
            /\ pc' = Propagate(res.raised, pc)
    /\ trace' = Append(trace, pc)
    /\ UNCHANGED <<args, directory, raw_data, practice_level_data, mapping_data,
                   merged_data, practice_level_pivot, summaries, interim_files>>
    /\ MainUnchanged

CompletionMessage ==
    LogRecord("SUCCESS", "GP Appointment Data Pipeline completed", 0, "")

\* logger.success(...), then main returns and utils.timeit logs the duration.
MainSuccess ==
    /\ pc = "success"
    /\ log' = log \o <<CompletionMessage,
                       LogRecord("DEBUG", "Function 'main' executed", 0, "")>>
    /\ pc' = "done"
    /\ UNCHANGED <<args, trace, raised, directory, raw_data, practice_level_data,
                   mapping_data, merged_data, practice_level_pivot, summaries,
                   interim_files, figures>>
    /\ MainUnchanged

MainNext ==
    \/ MainStart
    \/ MainDownloadAndExtractZip
    \/ MainReadMappingData
    \/ MainReadPracticeLevelData
    \/ MainTidyPracticeLevelData
    \/ MainMergeMappingDataWithPracticeLevelData
    \/ MainPivotPracticeLevelData
    \/ MainBatchSummarizeMonthlyAggregateAppointments
    \/ MainSaveSummaries
    \/ MainBatchPlotMonthlyAttdRateBy
    \/ MainSuccess

SpecMain == MainInit /\ [][MainNext]_vars

(***************************************************************************)
(* The claims.                                                             *)
(***************************************************************************)
Project(row, columns) == [c \in columns |-> row[c]]

IsPrefix(s, t) == Len(s) <= Len(t) /\ \A i \in DOMAIN s : s[i] = t[i]

\* ---- the aggregation, under SpecAgg ----
AggKeys == {DATE} \cup Range(args.agg_cols)

AggCombinations == {Project(r, AggKeys) : r \in DOMAIN practice_level_pivot.rows}

AggCombinationsWithoutNull == {k \in AggCombinations : \A c \in AggKeys : k[c] # NA}

\* The sum of column c over the rows of the pivoted table with combination
\* key, a missing cell counting as 0.
AggExpectedSum(key, c) ==
    SumOver([r \in DOMAIN practice_level_pivot.rows |->
                practice_level_pivot.rows[r] * (IF r[c] = NaN THEN 0 ELSE r[c])],
            {r \in DOMAIN practice_level_pivot.rows : Project(r, AggKeys) = key})

AggOneRowPer(combinations) ==
    LET out == monthly_aggregate_appointments
    IN  /\ \A s \in DOMAIN out.rows :
            /\ out.rows[s] = 1
            /\ Project(s, AggKeys) \in combinations
            /\ \A c \in StatusColumns : s[c] = AggExpectedSum(Project(s, AggKeys), c)
        /\ \A k \in combinations :
            Cardinality({s \in DOMAIN out.rows : Project(s, AggKeys) = k}) = 1

\* C1 as stated: the summary has exactly one row per distinct (date, grouping
\* values) combination of the pivoted table, a missing grouping value
\* included, and each status column of that row is the sum of the column over
\* the rows with that combination, a missing cell counting as 0.
C1_OneRowPerCombination == pc = "done" => AggOneRowPer(AggCombinations)

\* C1 amended: the summary has exactly one row per distinct (date, grouping
\* values) combination in which no grouping value is missing, holding the
\* sums of the three status columns over the rows with that combination (a
\* missing cell counting as 0); rows with a missing grouping value are in no
\* group.  With no grouping columns that is one row per date.
C1_OneRowPerCombinationWithoutNull ==
    pc = "done" => AggOneRowPer(AggCombinationsWithoutNull)

\* A summary by region of a table with a row that has a region and a missing
\* count, and a row of the same month that has no region: the first is the
\* one row of the summary.
C1_Witness ==
    /\ pc = "done"
    /\ args.agg_cols = <<"REGION_NAME">>
    /\ \E r1, r2 \in DOMAIN practice_level_pivot.rows :
        /\ r1[DATE] = r2[DATE]
        /\ r1["REGION_NAME"] # NA
        /\ r1["ATTENDED"] = NaN
        /\ r1["UNKNOWN"] = MaxCount
        /\ r2["REGION_NAME"] = NA
        /\ r2["UNKNOWN"] = MaxCount
    /\ \E s \in DOMAIN monthly_aggregate_appointments.rows :
        s["ATTENDED"] = 0 /\ s["UNKNOWN"] = MaxCount
    /\ NRows(monthly_aggregate_appointments) = 1

\* C4: in every summary row with rate columns and a positive total, both
\* rates lie in [0, 1] and their sum is at most 1: below 1 when UNKNOWN > 0,
\* equal to 1 when UNKNOWN = 0 (ATTENDED + DID_NOT_ATTEND against the total).
C4_RatesWithinUnit ==
    (pc = "done" /\ args.add_rate_cols) =>
        \A r \in DOMAIN monthly_aggregate_appointments.rows :
            r["TOTAL_APPOINTMENTS"] > 0 =>
                LET ar == r["ATTENDED_RATE"]
                    dr == r["DID_NOT_ATTEND_RATE"]
                    sum == ar.num * dr.den + dr.num * ar.den
                    one == ar.den * dr.den
                IN  /\ ar.den > 0 /\ 0 <= ar.num /\ ar.num <= ar.den
                    /\ dr.den > 0 /\ 0 <= dr.num /\ dr.num <= dr.den
                    /\ sum <= one
                    /\ r["UNKNOWN"] > 0 => sum < one
                    /\ r["UNKNOWN"] = 0 => sum = one
                    /\ r["ATTENDED"] + r["DID_NOT_ATTEND"] <= r["TOTAL_APPOINTMENTS"]
                    /\ r["UNKNOWN"] > 0 =>
                        r["ATTENDED"] + r["DID_NOT_ATTEND"] < r["TOTAL_APPOINTMENTS"]
                    /\ r["UNKNOWN"] = 0 =>
                        r["ATTENDED"] + r["DID_NOT_ATTEND"] = r["TOTAL_APPOINTMENTS"]

\* A summary with one row whose unknown count is positive and one whose
\* unknown count is zero, both with a positive total.
C4_Witness ==
    /\ pc = "done"
    /\ args.add_rate_cols
    /\ \E r1, r2 \in DOMAIN monthly_aggregate_appointments.rows :
        /\ r1["UNKNOWN"] > 0 /\ r1["ATTENDED"] > 0
        /\ r2["UNKNOWN"] = 0 /\ r2["DID_NOT_ATTEND"] > 0

\* ---- the calculations, under SpecCalc ----
CalcTotalDone ==
    /\ pc # "load"
    /\ raised = ""
    /\ \E i \in DOMAIN trace : trace[i] = "calculate_total_appointments"

CountOrZero(c) == IF c = NaN THEN 0 ELSE c

CalcCounts(r) ==
    [ATTENDED |-> CountOrZero(r["ATTENDED"]),
     DID_NOT_ATTEND |-> CountOrZero(r["DID_NOT_ATTEND"]),
     UNKNOWN |-> CountOrZero(r["UNKNOWN"])]

CalcExpectedTotal(r) ==
    CalcCounts(r).ATTENDED + CalcCounts(r).DID_NOT_ATTEND + CalcCounts(r).UNKNOWN

CalcWithTotal(r) == [counts |-> CalcCounts(r), total |-> r["TOTAL_APPOINTMENTS"]]

CalcWithExpectedTotal(r) == [counts |-> CalcCounts(r), total |-> CalcExpectedTotal(r)]

\* C2: once calculate_total_appointments has run, the rows of the frame are
\* the rows it was given, each with TOTAL_APPOINTMENTS = ATTENDED +
\* DID_NOT_ATTEND + UNKNOWN of that row, a missing count taken as 0.
C2_TotalIsSumOfCounts ==
    CalcTotalDone =>
        MapRows([r \in DOMAIN df.rows |-> CalcWithTotal(r)], df.rows)
        = MapRows([r \in DOMAIN args.frame.rows |-> CalcWithExpectedTotal(r)],
                  args.frame.rows)

\* A frame with a row that has a missing count beside a present one.
C2_Witness ==
    /\ CalcTotalDone
    /\ \E r \in DOMAIN args.frame.rows :
        /\ r["ATTENDED"] = NaN
        /\ r["DID_NOT_ATTEND"] = MaxCount
        /\ r["UNKNOWN"] = MaxCount

CalcStepsInOrder ==
    <<"calculate_total_appointments", "calculate_attended_rate",
      "calculate_did_not_attend_rate">>

CalcTargets == <<"TOTAL_APPOINTMENTS", "ATTENDED_RATE", "DID_NOT_ATTEND_RATE">>

CalcWithRates(r) ==
    [counts |-> CalcCounts(r), total |-> r["TOTAL_APPOINTMENTS"],
     attended_rate |-> r["ATTENDED_RATE"],
     did_not_attend_rate |-> r["DID_NOT_ATTEND_RATE"]]

CalcWithExpectedRates(r) ==
    [counts |-> CalcCounts(r), total |-> CalcExpectedTotal(r),
     attended_rate |-> [num |-> CalcCounts(r).ATTENDED, den |-> CalcExpectedTotal(r)],
     did_not_attend_rate |->
        [num |-> CalcCounts(r).DID_NOT_ATTEND, den |-> CalcExpectedTotal(r)]]

\* The steps run so far whose column the frame handed in did not have.
CalcStepsAdding == {i \in DOMAIN trace : CalcTargets[i] \notin args.frame.columns}

CalcRatesFromRecomputedTotal ==
    pc = "done" =>
        /\ trace = CalcStepsInOrder
        /\ MapRows([r \in DOMAIN df.rows |-> CalcWithRates(r)], df.rows)
           = MapRows([r \in DOMAIN args.frame.rows |-> CalcWithExpectedRates(r)],
                     args.frame.rows)

\* C3 as stated: the steps run in the order total, attended rate,
\* did-not-attend rate, each once and each adding exactly one column, so
\* after i steps the frame has i columns more than it was given; at the end
\* the rates are the counts over the total the first step computed.
C3_EachStepAddsOneColumn ==
    /\ IsPrefix(trace, CalcStepsInOrder)
    /\ (pc \in {"pipe", "done"}) =>
        /\ df.columns = args.frame.columns \cup {CalcTargets[i] : i \in DOMAIN trace}
        /\ Cardinality(df.columns) = Cardinality(args.frame.columns) + Len(trace)
    /\ CalcRatesFromRecomputedTotal

\* C3, amended: the steps of calculate_appointment_columns run in the order
\* total, attended rate, did-not-attend rate, each once; a step adds exactly
\* one column when the frame it was given has no column of that name and
\* replaces that column, adding none, when it has; and at the end every row
\* has ATTENDED_RATE = ATTENDED / TOTAL_APPOINTMENTS and DID_NOT_ATTEND_RATE
\* = DID_NOT_ATTEND / TOTAL_APPOINTMENTS with the total that the first step
\* computed from the row's counts.
C3_StepsInOrder ==
    /\ IsPrefix(trace, CalcStepsInOrder)
    /\ (pc \in {"pipe", "done"}) =>
        /\ df.columns = args.frame.columns \cup {CalcTargets[i] : i \in DOMAIN trace}
        /\ Cardinality(df.columns) =
                Cardinality(args.frame.columns) + Cardinality(CalcStepsAdding)
    /\ pc = "done" =>
        /\ trace = CalcStepsInOrder
        /\ MapRows([r \in DOMAIN df.rows |-> CalcWithRates(r)], df.rows)
           = MapRows([r \in DOMAIN args.frame.rows |-> CalcWithExpectedRates(r)],
                     args.frame.rows)

\* The chain has ended on a frame that came with a total of its own, which
\* the first step replaced.
C3_Witness ==
    /\ pc = "done"
    /\ "TOTAL_APPOINTMENTS" \in args.frame.columns
    /\ \E r \in DOMAIN df.rows :
        /\ r["TOTAL_APPOINTMENTS"] > 0
        /\ r["ATTENDED_RATE"].num > 0
        /\ r["DID_NOT_ATTEND_RATE"].num > 0

\* ---- the merge, under SpecMerge ----
MergeCallDone ==
    pc = "done" /\ args.call = "merge_mapping_data_with_practice_level_data"

MatchedPairs ==
    {pair \in (DOMAIN practice_level_data.rows) \X (DOMAIN mapping_data.rows) :
        pair[1]["GP_CODE"] = pair[2]["GP_CODE"]}

MatchedPairCount ==
    SumOver([pair \in MatchedPairs |->
                practice_level_data.rows[pair[1]] * mapping_data.rows[pair[2]]],
            MatchedPairs)

UnmatchedPracticeRows ==
    {l \in DOMAIN practice_level_data.rows :
        \A r \in DOMAIN mapping_data.rows : r["GP_CODE"] # l["GP_CODE"]}

UnmatchedMappingRows ==
    {r \in DOMAIN mapping_data.rows :
        \A l \in DOMAIN practice_level_data.rows : r["GP_CODE"] # l["GP_CODE"]}

UnmatchedCount(side) ==
    IF side = "left_only"
    THEN SumOver([l \in UnmatchedPracticeRows |-> practice_level_data.rows[l]],
                 UnmatchedPracticeRows)
    ELSE SumOver([r \in UnmatchedMappingRows |-> mapping_data.rows[r]],
                 UnmatchedMappingRows)

\* C5: the frame returned by merge_mapping_data_with_practice_level_data has
\* one row per pair of a practice level row and a mapping row with equal
\* GP_CODE, made of the cells of the two, and no other row: as many rows as
\* matched pairs, none for a practice level row or a mapping row without a
\* partner.
C5_InnerJoinRows ==
    MergeCallDone =>
        /\ NRows(merged_data) = MatchedPairCount
        /\ merged_data.columns = practice_level_data.columns \cup mapping_data.columns
        /\ \A m \in DOMAIN merged_data.rows :
            LET l == Project(m, practice_level_data.columns)
                r == Project(m, mapping_data.columns)
            IN  /\ l \in DOMAIN practice_level_data.rows
                /\ r \in DOMAIN mapping_data.rows
                /\ merged_data.rows[m] = practice_level_data.rows[l] * mapping_data.rows[r]
        /\ \A pair \in MatchedPairs :
            \E m \in DOMAIN merged_data.rows :
                /\ Project(m, practice_level_data.columns) = pair[1]
                /\ Project(m, mapping_data.columns) = pair[2]

\* A merge with matched pairs, a practice level row without a mapping row and
\* a mapping row without a practice level row.
C5_Witness ==
    /\ MergeCallDone
    /\ NRows(merged_data) >= 2
    /\ UnmatchedPracticeRows # {}
    /\ UnmatchedMappingRows # {}

\* C6: when merge_mapping_data_with_practice_level_data is given rows without
\* a partner on the other side, the log holds a warning with their number and
\* their side, and the call still returns.
C6_WarnsOfUnmatchedRows ==
    MergeCallDone =>
        \A side \in {"left_only", "right_only"} :
            UnmatchedCount(side) > 0 =>
                \E i \in DOMAIN log :
                    /\ log[i].level = "WARNING"
                    /\ log[i].side = side
                    /\ log[i].count = UnmatchedCount(side)

\* C7: the frame returned by merge_mapping_data_with_practice_level_data, and
\* by check_merge whatever its merge_column, has no join indicator column.
C7_IndicatorRemoved ==
    pc = "done" => args.merge_column \notin merged_data.columns

\* ---- the pivot and the chain pivot, aggregation, under SpecPivot ----
PivotIndex == IF Len(args.index) = 0 THEN FullIndexColumns ELSE Range(args.index)

\* The pivot was called with an index of columns the table has.
PivotCalled == pc # "load" /\ PivotIndex \subseteq practice_level_data.columns

UniquePairs ==
    /\ \A r \in DOMAIN practice_level_data.rows : practice_level_data.rows[r] = 1
    /\ \A r1, r2 \in DOMAIN practice_level_data.rows :
        (/\ r1["APPT_STATUS"] = r2["APPT_STATUS"]
         /\ Project(r1, PivotIndex) = Project(r2, PivotIndex)) => r1 = r2

StatusColumn(status) ==
    CASE status = "Attended" -> "ATTENDED"
      [] status = "DNA" -> "DID_NOT_ATTEND"
      [] status = "Unknown" -> "UNKNOWN"

ObservedStatuses == {r["APPT_STATUS"] : r \in DOMAIN practice_level_data.rows}

\* C8: for an input with unique (index tuple, status) pairs the pivot returns
\* a frame with exactly one row per distinct index tuple, the index as
\* columns, one column per status that occurs in the input, and in the cell
\* of (index tuple, status) the count of the input row with that pair, or a
\* missing value, not 0, when there is none.
C8_PivotOfUniquePairs ==
    (PivotCalled /\ UniquePairs) =>
        /\ raised # "ValueError"
        /\ practice_level_pivot.columns =
                PivotIndex \cup {StatusColumn(s) : s \in ObservedStatuses}
        /\ \A p \in DOMAIN practice_level_pivot.rows : practice_level_pivot.rows[p] = 1
        /\ {Project(p, PivotIndex) : p \in DOMAIN practice_level_pivot.rows} =
                {Project(r, PivotIndex) : r \in DOMAIN practice_level_data.rows}
        /\ \A p1, p2 \in DOMAIN practice_level_pivot.rows :
                Project(p1, PivotIndex) = Project(p2, PivotIndex) => p1 = p2
        /\ \A p \in DOMAIN practice_level_pivot.rows : \A s \in ObservedStatuses :
            LET rows == {r \in DOMAIN practice_level_data.rows :
                            /\ r["APPT_STATUS"] = s
                            /\ Project(r, PivotIndex) = Project(p, PivotIndex)}
            IN  /\ rows = {} => p[StatusColumn(s)] = NaN
                /\ \A r \in rows : p[StatusColumn(s)] = r["COUNT_OF_APPOINTMENTS"]

\* A pivot of four rows into two, with a cell that holds a count of 0, a
\* cell that holds a count and a cell with no input row.
C8_Witness ==
    /\ pc = "pivoted"
    /\ NRows(practice_level_data) = 4
    /\ NRows(practice_level_pivot) = 2
    /\ practice_level_pivot.columns = IndexColumns \cup StatusColumns
    /\ \E p \in DOMAIN practice_level_pivot.rows :
        p["ATTENDED"] = 0 /\ p["DID_NOT_ATTEND"] = MaxCount /\ p["UNKNOWN"] = NaN

DuplicatePairs == ~UniquePairs

\* C9: for an input in which two rows share index tuple and status the pivot
\* raises (pandas' ValueError for duplicate entries) and returns no frame:
\* nothing is summed, picked or passed on to the aggregation.
C9_DuplicatePairsRaise ==
    (PivotCalled /\ DuplicatePairs) =>
        /\ pc = "raised"
        /\ raised = "ValueError"
        /\ practice_level_pivot = EmptyFrame
        /\ monthly_aggregate_appointments = EmptyFrame

\* The pivot has raised on two rows of one index tuple and status that differ
\* in their count, among rows of other pairs.
C9_Witness ==
    /\ pc = "raised"
    /\ raised = "ValueError"
    /\ NRows(practice_level_data) = 4
    /\ \E r1, r2 \in DOMAIN practice_level_data.rows :
        /\ r1 # r2
        /\ r1["APPT_STATUS"] = r2["APPT_STATUS"]
        /\ Project(r1, IndexColumns) = Project(r2, IndexColumns)
    /\ Cardinality(ObservedStatuses) > 1

ChainKeys == {DATE} \cup Range(args.agg_cols)

ChainDone == pc = "done" /\ args.add_rate_cols

KeepsIndexTuplesDistinct ==
    \A p1, p2 \in DOMAIN practice_level_pivot.rows :
        Project(p1, ChainKeys) = Project(p2, ChainKeys) => p1 = p2

NoMissingKey ==
    \A p \in DOMAIN practice_level_pivot.rows : \A c \in ChainKeys : p[c] # NA

RoundTrip ==
    \A p \in DOMAIN practice_level_pivot.rows :
        /\ \E s \in DOMAIN monthly_aggregate_appointments.rows :
                Project(s, ChainKeys) = Project(p, ChainKeys)
        /\ \A s \in DOMAIN monthly_aggregate_appointments.rows :
                Project(s, ChainKeys) = Project(p, ChainKeys) =>
                    s["TOTAL_APPOINTMENTS"] =
                        CountOrZero(p["ATTENDED"]) + CountOrZero(p["DID_NOT_ATTEND"])
                            + CountOrZero(p["UNKNOWN"])

\* C10 as stated: when the grouping keeps the pivoted index tuples distinct,
\* every pivoted row has a row in the summary, and the total of that row is
\* the sum of the pivoted row's three status cells, missing cells as 0.
C10_RoundTrip == (ChainDone /\ KeepsIndexTuplesDistinct) => RoundTrip

\* C10 amended: the same, for a grouping that keeps the pivoted index tuples
\* distinct and in whose columns no pivoted row has a missing value.
C10_RoundTripWithoutNull ==
    (ChainDone /\ KeepsIndexTuplesDistinct /\ NoMissingKey) => RoundTrip

\* Pivot and aggregation by practice of two index tuples, one of them with
\* missing status cells, both with a total in the summary.
C10_Witness ==
    /\ ChainDone
    /\ args.agg_cols = <<"GP_NAME">>
    /\ KeepsIndexTuplesDistinct
    /\ NoMissingKey
    /\ NRows(practice_level_pivot) = 2
    /\ NRows(monthly_aggregate_appointments) = 2
    /\ \E p \in DOMAIN practice_level_pivot.rows :
        p["DID_NOT_ATTEND"] = NaN /\ p["ATTENDED"] = MaxCount
    /\ \E s \in DOMAIN monthly_aggregate_appointments.rows :
        s["TOTAL_APPOINTMENTS"] = 3 * MaxCount

\* ---- the scenario of one practice in one month, under SpecScenario ----
ScenarioEnded == pc \in {"done", "raised"}

\* The long table holds exactly the rows (2021-01-01, A, REGION1) with the
\* counts 1, 2 and 3 under the labels attended, dna and unknown.
ScenarioLoaded(attended, dna, unknown) ==
    practice_level_data.rows =
        SetToBag({ScenarioRow(attended, 1), ScenarioRow(dna, 2), ScenarioRow(unknown, 3)})

\* The one summary row of the scenario.
ScenarioSummary ==
    Frame({DATE, "ATTENDED", "DID_NOT_ATTEND", "UNKNOWN", "TOTAL_APPOINTMENTS",
           "ATTENDED_RATE", "DID_NOT_ATTEND_RATE"},
          SetToBag({[c \in {DATE, "ATTENDED", "DID_NOT_ATTEND", "UNKNOWN",
                            "TOTAL_APPOINTMENTS", "ATTENDED_RATE",
                            "DID_NOT_ATTEND_RATE"} |->
                CASE c = DATE -> "2021-01-01"
                  [] c = "ATTENDED" -> 1
                  [] c = "DID_NOT_ATTEND" -> 2
                  [] c = "UNKNOWN" -> 3
                  [] c = "TOTAL_APPOINTMENTS" -> 6
                  [] c = "ATTENDED_RATE" -> [num |-> 1, den |-> 6]
                  [] c = "DID_NOT_ATTEND_RATE" -> [num |-> 2, den |-> 6]]}))

\* C11: the rows ATTENDED = 1, DID NOT ATTEND = 2, UNKNOWN = 3 of
\* (2021-01-01, A, REGION1), pivoted with the default rename map and
\* aggregated by month alone, yield the one row 1, 2, 3, total 6, rates 1/6
\* and 2/6.
C11_ScenarioYieldsOneRow ==
    (ScenarioEnded /\ ScenarioLoaded("ATTENDED", "DID NOT ATTEND", "UNKNOWN")) =>
        /\ raised = ""
        /\ monthly_aggregate_appointments = ScenarioSummary

\* The same rows under the labels of the default rename map do yield it.
ScenarioOfDataLabels ==
    (ScenarioEnded /\ ScenarioLoaded("Attended", "DNA", "Unknown")) =>
        /\ raised = ""
        /\ monthly_aggregate_appointments = ScenarioSummary

\* ---- the batch aggregation, under SpecBatch ----
BatchDone == pc = "done"

\* The dimensions asked for: the list given, or the module's default list.
BatchRequested == IF args.agg_cols = None THEN AGG_COLS ELSE args.agg_cols

\* The entries of a list in the order of their first occurrence.
RECURSIVE FirstOccurrences(_)
FirstOccurrences(seq) ==
    IF Len(seq) = 0 THEN <<>>
    ELSE LET front == FirstOccurrences(SubSeq(seq, 1, Len(seq) - 1))
             last == seq[Len(seq)]
         IN  IF last \in Range(front) THEN front ELSE Append(front, last)

ColumnValues(frame, column) == {r[column] : r \in DOMAIN frame.rows}

BatchOneSummaryPerDimension ==
    /\ Range(summaries.keys) = Range(BatchRequested)
    /\ DOMAIN summaries.value = Range(BatchRequested)
    /\ Len(summaries.keys) = Cardinality(Range(BatchRequested))

\* C12 as stated: one summary per requested dimension, and the values of
\* each summary's dimension column are the values of that column in the
\* pivoted table, the missing value included.
C12_BatchKeysAndValues ==
    BatchDone =>
        /\ BatchOneSummaryPerDimension
        /\ \A d \in Range(BatchRequested) :
                ColumnValues(summaries.value[d], d)
                    = ColumnValues(args.practice_level_pivot, d)

\* The non-null values of column d in the rows of the pivoted table that
\* have a month.
DatedValues(d) ==
    {r[d] : r \in {q \in DOMAIN args.practice_level_pivot.rows : q[DATE] # NaT}} \ {NA}

\* C12: the key set of the returned dict is the set of requested dimensions,
\* there is one summary per requested dimension, and the values of each
\* summary's dimension column are the non-null values of that column in the
\* rows of the pivoted table whose month is not null.
C12_BatchKeysAndNonNullValues ==
    BatchDone =>
        /\ BatchOneSummaryPerDimension
        /\ \A d \in Range(BatchRequested) :
                ColumnValues(summaries.value[d], d) = DatedValues(d)

\* Both dimensions asked for, on a table with two practices of which one
\* has no region.
\* A practice and a region whose only row has no month are in no summary.
C12_Witness ==
    /\ BatchDone
    /\ Range(BatchRequested) = {"GP_NAME", "REGION_NAME"}
    /\ ColumnValues(args.practice_level_pivot, "GP_NAME") = {"Example GP A", "Example GP C"}
    /\ ColumnValues(summaries.value["GP_NAME"], "GP_NAME") = {"Example GP A"}
    /\ ColumnValues(args.practice_level_pivot, "REGION_NAME") = {"REGION1", "REGION2"}
    /\ ColumnValues(summaries.value["REGION_NAME"], "REGION_NAME") = {"REGION1"}

\* A practice without region is in the summary by practice and its missing
\* region in no row of the summary by region.
C12_WitnessNullValue ==
    /\ BatchDone
    /\ Range(BatchRequested) = {"GP_NAME", "REGION_NAME"}
    /\ ColumnValues(args.practice_level_pivot, "REGION_NAME") = {"REGION1", NA}
    /\ ColumnValues(summaries.value["REGION_NAME"], "REGION_NAME") = {"REGION1"}
    /\ Cardinality(ColumnValues(summaries.value["GP_NAME"], "GP_NAME")) = 2

\* C13: the summary stored under dimension d is the result of
\* summarize_monthly_aggregate_appointments on the pivoted table as it was
\* handed to the batch, grouped by d alone with the same flag; the keys are
\* the requested dimensions in the order of the list.
C13_BatchIsSummarizePerDimension ==
    BatchDone =>
        /\ summaries.keys = FirstOccurrences(BatchRequested)
        /\ \A d \in Range(BatchRequested) :
                LET alone == summarize_monthly_aggregate_appointments(
                                args.practice_level_pivot, <<d>>, args.add_rate_cols)
                IN  /\ alone.raised = ""
                    /\ summaries.value[d] = alone.df

\* A list of two dimensions, region first, on a table of two rows whose
\* summaries by practice and by region differ.
C13_Witness ==
    /\ BatchDone
    /\ args.agg_cols = <<"REGION_NAME", "GP_NAME">>
    /\ summaries.keys = <<"REGION_NAME", "GP_NAME">>
    /\ NRows(args.practice_level_pivot) = 2
    /\ NRows(summaries.value["GP_NAME"]) = 2
    /\ NRows(summaries.value["REGION_NAME"]) = 1
    /\ ~args.add_rate_cols

\* ---- the tidying, under SpecTidy ----
TidyCalled == pc \in {"done", "raised"}

TidyInput == args.practice_level_data

\* The calendar date a month-start text stands for in the format day,
\* abbreviated month, year.
ExpectedDate(text) ==
    CASE text = <<"01", "SEP", "2024">> -> "2024-09-01"
      [] text = <<"01", "Sep", "2024">> -> "2024-09-01"
      [] text = <<"01", "AUG", "2024">> -> "2024-08-01"
      [] OTHER -> "none"

CalendarDates == {"2024-08-01", "2024-09-01"}

Parseable(text) == ExpectedDate(text) \in CalendarDates

\* A text that is there and is not a date in the format.
Unparseable(text) == text # <<>> /\ ~Parseable(text)

\* Row r of the input restricted to the selected columns, its month-start
\* replaced by the date it stands for (the null date for an empty cell).
TidyExpectedRow(r) ==
    [c \in TidyColumns |->
        IF c = DATE
        THEN (IF r[c] = <<>> THEN NaT ELSE ExpectedDate(r[c]))
        ELSE r[c]]

TidyExpectedRows ==
    MapRows([r \in DOMAIN TidyInput.rows |-> TidyExpectedRow(r)], TidyInput.rows)

\* C14: on a raw table with the 8 required columns and only parseable
\* dates, tidy_practice_level_data returns exactly the 8 columns and the
\* rows of the input in the same number, every non-date cell as it was and
\* every date cell the calendar date of its text.
C14_TidyKeepsRows ==
    ( /\ TidyCalled
      /\ TidyColumns \subseteq TidyInput.columns
      /\ \A r \in DOMAIN TidyInput.rows : Parseable(r[DATE]) ) =>
        /\ raised = ""
        /\ practice_level_data.columns = TidyColumns
        /\ Cardinality(practice_level_data.columns) = 8
        /\ NRows(practice_level_data) = NRows(TidyInput)
        /\ practice_level_data.rows = TidyExpectedRows
        /\ \A r \in DOMAIN practice_level_data.rows : r[DATE] \in CalendarDates

\* A raw table with an extra column and the same row of unknown status
\* twice, written 01SEP2024.
C14_Witness ==
    /\ pc = "done"
    /\ "SUPPLIER" \in TidyInput.columns
    /\ NRows(TidyInput) = 2
    /\ \E r \in DOMAIN practice_level_data.rows :
            /\ practice_level_data.rows[r] = 2
            /\ r["APPT_STATUS"] = "Unknown"
            /\ r[DATE] = "2024-09-01"

\* C15 as stated: the call fails, returning no table and writing no
\* interim output, when a required column is absent or the month-start of
\* a row cannot be parsed (an empty cell cannot); a returned table has a
\* parsed date in every row.
C15_TidyFailsAsAWhole ==
    /\ ( /\ TidyCalled
         /\ \/ ~(TidyColumns \subseteq TidyInput.columns)
            \/ \E r \in DOMAIN TidyInput.rows : ~Parseable(r[DATE]) ) =>
            /\ raised # ""
            /\ practice_level_data = EmptyFrame
            /\ interim_files = {}
    /\ pc = "done" =>
            \A r \in DOMAIN practice_level_data.rows : r[DATE] \in CalendarDates

\* C15: the call fails, returning no table and writing no interim output,
\* when a required column is absent or the month-start of a row is there
\* and cannot be parsed; a returned table has the parsed date in every row
\* whose month-start was there and the null date in the others.
C15_TidyFailsOnUnparseableText ==
    /\ ( /\ TidyCalled
         /\ \/ ~(TidyColumns \subseteq TidyInput.columns)
            \/ \E r \in DOMAIN TidyInput.rows : Unparseable(r[DATE]) ) =>
            /\ raised # ""
            /\ practice_level_data = EmptyFrame
            /\ interim_files = {}
    /\ pc = "done" => practice_level_data.rows = TidyExpectedRows

\* A row that parses beside one that does not, with the interim output
\* asked for.
C15_Witness ==
    /\ pc = "raised"
    /\ raised = "ValueError"
    /\ args.save_interim_output
    /\ TidyColumns \subseteq TidyInput.columns
    /\ \E r1, r2 \in DOMAIN TidyInput.rows :
            Parseable(r1[DATE]) /\ Unparseable(r2[DATE])
    /\ interim_files = {}

\* ---- reading the crosstab files, under SpecRead ----
ReadCalled == pc \in {"done", "raised"}

\* The files of the directory named Practice_Level_Crosstab*.csv.
CrosstabFiles ==
    {f \in directory :
        f.name[1] = "Practice_Level_Crosstab" /\ f.name[Len(f.name)] = ".csv"}

RECURSIVE TotalRows(_)
TotalRows(files) ==
    IF files = {} THEN 0
    ELSE LET f == CHOOSE g \in files : TRUE
         IN  NRows(f.content) + TotalRows(files \ {f})

RECURSIVE AllRows(_)
AllRows(files) ==
    IF files = {} THEN EmptyBag
    ELSE LET f == CHOOSE g \in files : TRUE
         IN  f.content.rows (+) AllRows(files \ {f})

LoggedCount(message) ==
    Cardinality({i \in DOMAIN log : log[i].message = message})

\* C16: with no file of the expected name in the directory the call fails
\* before any file is read and before any concatenation; otherwise it
\* returns the rows of all the matching files, as many as the files have
\* together, each matching file read once and then one concatenation.
C16_ReadAllOrFail ==
    ReadCalled =>
        IF CrosstabFiles = {}
        THEN /\ raised = "AssertionError"
             /\ raw_data = EmptyFrame
             /\ log = <<>>
        ELSE /\ raised = ""
             /\ NRows(raw_data) = TotalRows(CrosstabFiles)
             /\ raw_data.rows = AllRows(CrosstabFiles)
             /\ LoggedCount("Reading file") = Cardinality(CrosstabFiles)
             /\ LoggedCount("Concatenating practice data") = 1
             /\ log[Len(log)].message = "Concatenating practice data"

\* Two crosstab files of one and two rows beside a mapping file with rows.
C16_Witness ==
    /\ pc = "done"
    /\ Cardinality(CrosstabFiles) = 2
    /\ \E f \in CrosstabFiles : NRows(f.content) = 1
    /\ \E f \in CrosstabFiles : NRows(f.content) = 2
    /\ \E f \in directory \ CrosstabFiles : NRows(f.content) > 0
    /\ NRows(raw_data) = 3

\* A directory with files, none of them a crosstab file of rows to read.
C16_WitnessNoFile ==
    /\ pc = "raised"
    /\ Cardinality(directory) = 2
    /\ CrosstabFiles = {}

\* ---- the plots, under SpecPlot ----
PlotCalled == pc \in {"done", "raised"}

\* The plots saved for agg_column, as positions of the saved sequence.
SavedFor(agg_column) == {i \in DOMAIN trace : trace[i].agg_by = agg_column}

Categories(agg_column) == Cardinality(ColumnValues(summaries.value[agg_column], agg_column))

\* The figures directory is under the working directory.
FiguresUnderCwd == args.figures_path.under_cwd

\* C20 as stated: fewer than 20 categories give a violin plot, 20 or more
\* a point plot, and one plot is saved per aggregation column (in the calls
\* whose figures directory is under the working directory, so that every
\* plot made can be saved).
C20_ViolinBelowTwenty ==
    (PlotCalled /\ FiguresUnderCwd) =>
        /\ raised = ""
        /\ \A agg_column \in Range(summaries.keys) :
                /\ Cardinality(SavedFor(agg_column)) = 1
                /\ \A i \in SavedFor(agg_column) :
                        trace[i].kind = IF Categories(agg_column) < 20 THEN "violin"
                                        ELSE "point"

\* ---- groups without appointments, under SpecAgg ----
\* The combinations whose rows hold no appointment: every count 0 or missing.
AggEmptyCombinations ==
    {k \in AggCombinationsWithoutNull :
        \A c \in StatusColumns : AggExpectedSum(k, c) = 0}

\* C18: with rate columns asked for, the call does not fail, and a group
\* whose ATTENDED, DID_NOT_ATTEND and UNKNOWN sums are all 0 has its row in
\* the summary, with TOTAL_APPOINTMENTS = 0 and both rates the undefined
\* result of 0 / 0, not a number.
C18_ZeroTotalRowKept ==
    (pc # "load" /\ args.add_rate_cols) =>
        /\ raised = ""
        /\ \A k \in AggEmptyCombinations :
            \E s \in DOMAIN monthly_aggregate_appointments.rows :
                /\ Project(s, AggKeys) = k
                /\ monthly_aggregate_appointments.rows[s] = 1
                /\ \A c \in StatusColumns : s[c] = 0
                /\ s["TOTAL_APPOINTMENTS"] = 0
                /\ s["ATTENDED_RATE"].den = 0
                /\ s["DID_NOT_ATTEND_RATE"].den = 0
                /\ s["ATTENDED_RATE"] = NaNRate
                /\ s["DID_NOT_ATTEND_RATE"] = NaNRate

\* A summary by practice of a practice whose counts are 0 or missing and a
\* practice with appointments.
C18_Witness ==
    /\ pc = "done"
    /\ args.add_rate_cols
    /\ args.agg_cols = <<"GP_NAME">>
    /\ Cardinality(AggEmptyCombinations) = 1
    /\ NRows(monthly_aggregate_appointments) = 2
    /\ \E r \in DOMAIN practice_level_pivot.rows :
            r["ATTENDED"] = NaN /\ r["DID_NOT_ATTEND"] = 0 /\ r["UNKNOWN"] = NaN
    /\ \E s \in DOMAIN monthly_aggregate_appointments.rows :
            s["TOTAL_APPOINTMENTS"] > 0

\* ---- the run of main, under SpecMain ----
\* The stages of the pipeline, in the order of the specification.
MainOrder ==
    << "download_and_extract_zip", "read_mapping_data", "read_practice_level_data",
       "tidy_practice_level_data", "merge_mapping_data_with_practice_level_data",
       "pivot_practice_level_data",
       "batch_summarize_monthly_aggregate_appointments", "save_summaries",
       "batch_plot_monthly_attd_rate_by" >>

CompletionLogged == CompletionMessage \in Range(log)

\* C17: in every run of main the stages start in the order download, mapping
\* load, crosstab load, tidy, merge, pivot, batch aggregation, interim save,
\* plotting, each one only when every earlier one has run and none has
\* raised; once a stage has raised, no step follows (no later stage, no
\* retry), and the completion message is logged only after all nine stages.
C17_StagesInOrder ==
    /\ [](IsPrefix(trace, MainOrder))
    /\ [](raised # "" => (pc = "raised" /\ ~CompletionLogged))
    /\ [](CompletionLogged => (trace = MainOrder /\ raised = ""))
    /\ [][ /\ raised = ""
           /\ trace' # trace =>
                /\ Len(trace) < Len(MainOrder)
                /\ trace' = Append(trace, MainOrder[Len(trace) + 1])
                /\ \A i \in 1..Len(trace) : trace[i] = MainOrder[i] ]_vars

\* A run whose pivot raised on a duplicate entry: six stages started, no
\* summary, no figure, no completion message.
C17_Witness ==
    /\ pc = "raised"
    /\ raised = "ValueError"
    /\ trace = SubSeq(MainOrder, 1, 6)
    /\ NRows(merged_data) > 1
    /\ summaries = EmptyDict
    /\ figures = {}
    /\ ~CompletionLogged

\* A run that completed.
C17_WitnessCompleted ==
    /\ pc = "done"
    /\ CompletionLogged
    /\ trace = MainOrder

\* ---- the tables handed to the stages, under SpecMain ----
Started(stage) == stage \in Range(trace)

\* The cells of the status columns of a frame.
StatusCells(frame) ==
    {r[c] : r \in DOMAIN frame.rows, c \in StatusColumns \cap frame.columns}

RateColumns == {"TOTAL_APPOINTMENTS", "ATTENDED_RATE", "DID_NOT_ATTEND_RATE"}

\* C19: every stage leaves its input tables as they were handed to it: the
\* raw table after tidy_practice_level_data, the tidied table and the mapping
\* table after the merge, the merged table after the pivot, and the pivoted
\* table after batch_summarize_monthly_aggregate_appointments and its calls
\* of summarize_monthly_aggregate_appointments; the pivoted table has no
\* zero-filled cell and no rate column, the summaries have no missing status
\* cell and have the rate columns.
C19_InputsUnchanged ==
    /\ Started("tidy_practice_level_data") => raw_data = args.raw_data
    /\ Started("merge_mapping_data_with_practice_level_data") =>
            /\ practice_level_data = args.practice_level_data
            /\ mapping_data = args.mapping_data
    /\ Started("pivot_practice_level_data") => merged_data = args.merged_data
    /\ Started("batch_summarize_monthly_aggregate_appointments") =>
            /\ practice_level_pivot = args.practice_level_pivot
            /\ practice_level_pivot.columns \cap RateColumns = {}
            /\ raised = "" =>
                /\ practice_level_pivot =
                        pivot_practice_level_data(merged_data, <<>>, "APPT_STATUS",
                                                  "COUNT_OF_APPOINTMENTS", <<>>).df
                /\ \A k \in Range(summaries.keys) :
                    /\ NaN \notin StatusCells(summaries.value[k])
                    /\ RateColumns \subseteq summaries.value[k].columns
                    /\ summaries.value[k] =
                            summarize_monthly_aggregate_appointments(
                                args.practice_level_pivot, <<k>>, TRUE).df

\* A completed run whose pivoted table has a missing status cell, still
\* missing after the summaries by practice and by region were made.
C19_Witness ==
    /\ pc = "done"
    /\ NaN \in StatusCells(practice_level_pivot)
    /\ NRows(practice_level_pivot) = 2
    /\ summaries.keys = AGG_COLS
    /\ NRows(raw_data) = 3
    /\ raw_data.columns # practice_level_data.columns
    /\ NRows(mapping_data) = 2

\* ---- the records of check_merge, under SpecMerge ----
\* The rows of a side without a partner that the join of the call kept.
MergedUnmatched(side) ==
    IF side = "left_only"
    THEN IF args.how \in {"left", "outer"} THEN UnmatchedCount(side) ELSE 0
    ELSE IF args.how \in {"right", "outer"} THEN UnmatchedCount(side) ELSE 0

HealthyLogged == \E i \in DOMAIN log : log[i] = Info("The merge was healthy.")

WarningLogged == \E i \in DOMAIN log : log[i].level = "WARNING"

MergeWasHealthy ==
    MergedUnmatched("left_only") = 0 /\ MergedUnmatched("right_only") = 0

\* C21: after check_merge the log holds "The merge was healthy." exactly when
\* the merged table has no left-only and no right-only row, and holds a
\* warning and no healthy message otherwise.
C21_HealthyIffNoUnmatched ==
    pc = "done" =>
        /\ HealthyLogged <=> MergeWasHealthy
        /\ WarningLogged <=> ~MergeWasHealthy

\* What the code does: the warnings are as stated, the healthy message is
\* never logged.
C21_NeverHealthy ==
    pc = "done" =>
        /\ ~HealthyLogged
        /\ WarningLogged <=> ~MergeWasHealthy

\* ---- status labels and status columns, under SpecScenario ----
ScenarioSummarized == "agg_cols" \in DOMAIN args

ScenarioPivoted == pc = "pivoted" \/ ScenarioSummarized

\* The labels of the loaded rows.
LabelsPresent == {r["APPT_STATUS"] : r \in DOMAIN practice_level_data.rows}

\* The label the default rename map turns into a status column.
DefaultLabel(c) ==
    CASE c = "ATTENDED" -> "Attended"
      [] c = "DID_NOT_ATTEND" -> "DNA"
      [] c = "UNKNOWN" -> "Unknown"

\* The pivoted table has a column labelled l: alone, or as one of several
\* columns of that label.
PivotHasLabel(l) ==
    \/ l \in practice_level_pivot.columns
    \/ \E c \in LabelsPresent :
            /\ Rename(DefaultRenameColumns, c) = l
            /\ ColumnKey(DefaultRenameColumns, {l}, c) \in practice_level_pivot.columns

\* The pivoted table has no column c, and the aggregation of it, if called,
\* raised KeyError and returned nothing.
ColumnMissingAndFails(c) ==
    /\ ~PivotHasLabel(c)
    /\ ScenarioSummarized =>
        /\ raised = "KeyError"
        /\ monthly_aggregate_appointments = EmptyFrame

OtherLabelsKept ==
    \A l \in LabelsPresent \ {DefaultLabel(c) : c \in StatusColumns} :
        PivotHasLabel(l)

\* C22 as stated: when no row carries the label Attended, DNA or Unknown of
\* a status column (rows with other labels included), the pivoted table has
\* no column of that name, other labels are columns under their own name,
\* and the aggregation fails with a missing column.
C22_MissingLabelMissingColumn ==
    ScenarioPivoted =>
        /\ OtherLabelsKept
        /\ \A c \in StatusColumns :
            DefaultLabel(c) \notin LabelsPresent => ColumnMissingAndFails(c)

\* C22, amended: the same when, besides, no row carries the name of the
\* status column itself as its label (a label ATTENDED or UNKNOWN keeps its
\* name and so is that column).
C22_MissingLabelMissingColumnUnlessNamed ==
    ScenarioPivoted =>
        /\ OtherLabelsKept
        /\ \A c \in StatusColumns :
            (DefaultLabel(c) \notin LabelsPresent /\ c \notin LabelsPresent) =>
                ColumnMissingAndFails(c)

\* Rows Attended and DID NOT ATTEND, pivoted and aggregated: no DNA row, so
\* no DID_NOT_ATTEND column, and the label DID NOT ATTEND is a column.
C22_Witness ==
    /\ ScenarioSummarized
    /\ LabelsPresent = {"Attended", "DID NOT ATTEND"}
    /\ "DID NOT ATTEND" \in practice_level_pivot.columns
    /\ "ATTENDED" \in practice_level_pivot.columns
    /\ "DID_NOT_ATTEND" \notin practice_level_pivot.columns
    /\ raised = "KeyError"

\* ---- conservation across groupings, under SpecBatch ----
\* The months of the pivoted table.
BatchMonths == ColumnValues(practice_level_pivot, DATE) \ {NA}

\* The summary of the pivoted table by month alone.
MonthOnlySummary ==
    summarize_monthly_aggregate_appointments(
        practice_level_pivot, <<>>, args.add_rate_cols).df

\* The columns of counts of a summary.
CountColumns ==
    StatusColumns \cup (IF args.add_rate_cols THEN {"TOTAL_APPOINTMENTS"} ELSE {})

\* The sum of column c over the rows of month m of a frame.
MonthSum(frame, m, c) ==
    LET rows == {r \in DOMAIN frame.rows : r[DATE] = m}
    IN  SumOver([r \in rows |-> frame.rows[r] * r[c]], rows)

NoNullIn(d) == NA \notin ColumnValues(practice_level_pivot, d)

Conserved(d) ==
    \A m \in BatchMonths :
        /\ Cardinality({r \in DOMAIN MonthOnlySummary.rows : r[DATE] = m}) = 1
        /\ \A c \in CountColumns :
            MonthSum(summaries.value[d], m, c) = MonthSum(MonthOnlySummary, m, c)

\* C23: for every dimension d of the batch in which no row of the pivoted
\* table has a null value, and every month m, the sums of ATTENDED,
\* DID_NOT_ATTEND, UNKNOWN and TOTAL_APPOINTMENTS over the rows of m in the
\* summary by [date, d] are the values of the one row of m in the summary by
\* month alone.
C23_ConservedAcrossGroupings ==
    BatchDone =>
        \A d \in Range(summaries.keys) : NoNullIn(d) => Conserved(d)

\* Two practices with appointments in one month, summarised by practice with
\* the rate columns: two rows for the month, whose counts add up.
C23_Witness ==
    /\ BatchDone
    /\ args.add_rate_cols
    /\ "GP_NAME" \in Range(summaries.keys)
    /\ NoNullIn("GP_NAME")
    /\ \E m \in BatchMonths :
        /\ Cardinality({r \in DOMAIN summaries.value["GP_NAME"].rows : r[DATE] = m}) = 2
        /\ \A r \in DOMAIN summaries.value["GP_NAME"].rows : r["TOTAL_APPOINTMENTS"] > 0
        /\ MonthSum(MonthOnlySummary, m, "TOTAL_APPOINTMENTS") > 1

\* A dimension with a null value does lose the appointments of its rows.
C23_WitnessNullLoses ==
    /\ BatchDone
    /\ \E d \in Range(summaries.keys) : ~NoNullIn(d) /\ ~Conserved(d)

\* ---- the assertions of the plotting functions, under SpecPlot ----
\* The number of unique values of the aggregation column of the summary
\* the i-th plot was drawn from.
PlottedCategories(i) == nunique(summaries.value[trace[i].agg_by], trace[i].agg_by)

\* C24: whatever summaries batch_plot_monthly_attd_rate_by is given, no
\* assertion of a plotting function fails: every point plot was drawn from a
\* summary of at most 20 unique values of its aggregation column, every
\* violin plot from one of more than 20, and every summary was plotted
\* unless saving a plot raised.
C24_AssertionsNeverFail ==
    PlotCalled =>
        /\ raised # "AssertionError"
        /\ raised = "" => pc = "done" /\ Len(trace) = Len(summaries.keys)
        /\ raised # "" => raised = "ValueError" /\ ~FiguresUnderCwd
        /\ \A i \in DOMAIN trace :
            /\ trace[i].kind \in {"point", "violin"}
            /\ trace[i].kind = "point" => PlottedCategories(i) <= 20
            /\ trace[i].kind = "violin" => PlottedCategories(i) > 20

\* A point plot of exactly 20 categories after a violin plot of 21.
C24_Witness ==
    /\ pc = "done"
    /\ Len(trace) = 2
    /\ trace[1].kind = "violin" /\ PlottedCategories(1) = 21
    /\ trace[2].kind = "point" /\ PlottedCategories(2) = 20

====
